---------------------------- MODULE Spec2Model ----------------------------
(***************************************************************************)
(* Model of the device registry and deployment orchestrator of xcode-mcp   *)
(* (src/src/device-runner.ts, src/src/index.ts).                           *)
(*                                                                         *)
(* Strings are sequences of characters, so that String.prototype.includes  *)
(* is computed (Includes) and not assumed.  A device record keeps the      *)
(* fields the control flow reads: name, xcodeId, deviceCtlId.  The fields  *)
(* isAvailable, model and osVersion are display data that no branch of the *)
(* modelled code reads; they are left out of the records.                  *)
(*                                                                         *)
(* Time is counted in minutes.  An await is a step boundary: every action  *)
(* is the code that runs between two awaits of one async function.         *)
(***************************************************************************)
EXTENDS Integers, Sequences, FiniteSets, TLC

VARIABLES
    now,        \* Date.now(), in minutes
    cache,      \* the module-level cache object: devicesList, deviceListTimestamp
    calls,      \* per caller: the activation record of getAllDevices / findDeviceInfo
    returned,   \* history: summaries of the last two completed calls, newest last
    scanned,    \* history: what the two sources reported in the latest cycle of each caller
    run,        \* the activation record of the run-on-device handler
    commands,   \* history: the commands the current run-on-device invocation issued
    bundleIds,  \* cache.bundleIds has an entry for the invocation's project and scheme
    exec,       \* the activation record of executeCommand
    stream,     \* the activation record of the latest startDeviceLogStream
    xcode,      \* cache.xcodeInstallations and the activations of findXcodeInstallations
    tool,       \* cache.deviceCtlPaths and the activation of getDeviceCtlPath
    bundle      \* cache.bundleIds by key and the activation of getBundleIdentifier

registryVars == <<now, cache, calls, returned, scanned>>

runVars == <<run, commands, bundleIds>>

toolVars == <<exec, stream, xcode, tool, bundle>>

vars == <<now, cache, calls, returned, scanned, run, commands, bundleIds, exec, stream, xcode,
          tool, bundle>>

----------------------------------------------------------------------------
(* Bounds *)

MaxTime == 7
MaxRows == 2
MaxTokens == 5

(* const CACHE_TIMEOUT = 5 * 60 * 1000, in minutes *)
CACHE_TIMEOUT == 5

Callers == {1, 2}

----------------------------------------------------------------------------
(* Strings *)

undefined == <<"undefined">>

Strings == {<<"a">>, <<"b">>, <<"a", "b">>}

Ids == {<<"a">>, <<"b">>}

(* String.prototype.includes: t occurs in s as a contiguous substring *)
Includes(s, t) ==
    \E i \in 0..(Len(s) - Len(t)) : SubSeq(s, i + 1, i + Len(t)) = t

(* Array.prototype.find, as the index of the first element satisfying P; 0 when none *)
FindIndex(arr, P(_)) ==
    IF \E i \in 1..Len(arr) : P(arr[i])
    THEN CHOOSE i \in 1..Len(arr) : P(arr[i]) /\ \A j \in 1..(i - 1) : ~P(arr[j])
    ELSE 0

RECURSIVE SeqsUpTo(_, _)
SeqsUpTo(S, n) ==
    IF n = 0 THEN {<<>>}
    ELSE LET shorter == SeqsUpTo(S, n - 1)
         IN shorter \cup {Append(s, x) : s \in {t \in shorter : Len(t) = n - 1}, x \in S}

----------------------------------------------------------------------------
(* One discovery cycle: the two scans of getAllDevices *)

(* a usable line of `xcrun xctrace list devices`: nameMatch and idMatch both matched *)
XctraceLines(names, ids) == [name : names, xcodeId : ids]

(* a usable row of `devicectl list devices`: at least 4 columns after the header *)
DevicectlLines(names, ids) == [name : names, deviceCtlId : ids]

(* outcome of a source command: it throws, or it prints lines *)
XctraceOutputs(names, ids, n) ==
    [ok : {TRUE}, lines : SeqsUpTo(XctraceLines(names, ids), n)]
        \cup {[ok |-> FALSE, lines |-> <<>>]}

DevicectlOutputs(names, ids, n) ==
    [ok : {TRUE}, lines : SeqsUpTo(DevicectlLines(names, ids), n)]
        \cup {[ok |-> FALSE, lines |-> <<>>]}

(* XctraceLine without the search for an existing record *)
XctraceLine_AlwaysAppends(devices, line) ==
    Append(devices, [name |-> line.name, xcodeId |-> line.xcodeId, deviceCtlId |-> undefined])

(* body of the xctrace loop for one usable line *)
XctraceLine(devices, line) ==
    LET i == FindIndex(devices, LAMBDA d : d.name = line.name)
    IN IF i # 0
       THEN [devices EXCEPT ![i].xcodeId = line.xcodeId]
       ELSE Append(devices, [name |-> line.name,
                             xcodeId |-> line.xcodeId,
                             deviceCtlId |-> undefined])

RECURSIVE XctraceScan(_, _)
XctraceScan(devices, lines) ==
    IF lines = <<>> THEN devices
    ELSE XctraceScan(XctraceLine(devices, Head(lines)), Tail(lines))

(* ExistingDeviceMatch without the containment tests *)
ExistingDeviceMatch_ExactOnly(d, name) ==
    d.name = name

(* the predicate of devices.find in the devicectl loop *)
ExistingDeviceMatch(d, name) ==
    d.name = name \/ (Includes(d.name, name) \/ Includes(name, d.name))

(* body of the devicectl loop for one usable row *)
DevicectlLine(devices, line) ==
    LET i == FindIndex(devices, LAMBDA d : ExistingDeviceMatch(d, line.name))
    IN IF i # 0
       THEN [devices EXCEPT ![i].deviceCtlId = line.deviceCtlId]
       ELSE Append(devices, [name |-> line.name,
                             xcodeId |-> undefined,
                             deviceCtlId |-> line.deviceCtlId])

RECURSIVE DevicectlScan(_, _)
DevicectlScan(devices, lines) ==
    IF lines = <<>> THEN devices
    ELSE DevicectlScan(DevicectlLine(devices, Head(lines)), Tail(lines))

(* the lists the devicectl loop passes through, one per row, the start included *)
RECURSIVE DevicectlTrace(_, _)
DevicectlTrace(devices, lines) ==
    IF lines = <<>> THEN <<devices>>
    ELSE <<devices>> \o DevicectlTrace(DevicectlLine(devices, Head(lines)), Tail(lines))

----------------------------------------------------------------------------
(* findDeviceInfo: the two devices.find passes; the index found, 0 when it throws *)

(* IdMatch comparing the Xcode identifier only *)
IdMatch_XcodeIdOnly(d, nameOrId) ==
    d.xcodeId = nameOrId

IdMatch(d, nameOrId) ==
    d.xcodeId = nameOrId \/ d.deviceCtlId = nameOrId

NameMatch(d, nameOrId) ==
    d.name = nameOrId \/ Includes(d.name, nameOrId) \/ Includes(nameOrId, d.name)

(* FindDeviceInfo with one find over identifiers and names together *)
FindDeviceInfo_SinglePass(devices, nameOrId) ==
    FindIndex(devices, LAMBDA d : IdMatch(d, nameOrId) \/ NameMatch(d, nameOrId))

FindDeviceInfo(devices, nameOrId) ==
    LET i == FindIndex(devices, LAMBDA d : IdMatch(d, nameOrId))
    IN IF i # 0 THEN i
       ELSE FindIndex(devices, LAMBDA d : NameMatch(d, nameOrId))

----------------------------------------------------------------------------
(* The device list cache and the activation records *)

NoDevice == [name |-> undefined, xcodeId |-> undefined, deviceCtlId |-> undefined]

EmptyCache == [hasDevicesList |-> FALSE, devicesList |-> <<>>, deviceListTimestamp |-> 0]

IdleCall == [pc |-> "idle", op |-> "none", forceRefresh |-> FALSE, now |-> 0, cachedAt |-> 0,
             devices |-> <<>>, cmds |-> <<>>, query |-> undefined]

NoScan == [xctrace |-> [ok |-> FALSE, lines |-> <<>>],
           devicectl |-> [ok |-> FALSE, lines |-> <<>>],
           trace |-> << <<>> >>]

(* CacheFresh with the age test the wrong way round *)
CacheFresh_Inverted(forceRefresh, t) ==
    /\ ~forceRefresh
    /\ cache.hasDevicesList
    /\ cache.deviceListTimestamp # 0
    /\ (t - cache.deviceListTimestamp) > CACHE_TIMEOUT

(* CacheFresh with the age test off by one: an age of CACHE_TIMEOUT still hits *)
CacheFresh_Inclusive(forceRefresh, t) ==
    /\ ~forceRefresh
    /\ cache.hasDevicesList
    /\ cache.deviceListTimestamp # 0
    /\ (t - cache.deviceListTimestamp) <= CACHE_TIMEOUT

(* the condition of the early return of getAllDevices, evaluated at time t *)
CacheFresh(forceRefresh, t) ==
    /\ ~forceRefresh
    /\ cache.hasDevicesList
    /\ cache.deviceListTimestamp # 0
    /\ (t - cache.deviceListTimestamp) < CACHE_TIMEOUT

(* what a completed call leaves in the history: the caller resumes with `result`
   (getAllDevices) or with `device` / `error` (findDeviceInfo); `now` is the time
   the call read at its start and `cachedAt` the cache timestamp it found then
   (0 when there was none) *)
Summary(call, hit, result) ==
    LET i == IF call.op = "findDeviceInfo" THEN FindDeviceInfo(result, call.query) ELSE 0
    IN [op |-> call.op, forceRefresh |-> call.forceRefresh, now |-> call.now,
        cachedAt |-> call.cachedAt,
        hit |-> hit, cmds |-> call.cmds, result |-> result, query |-> call.query,
        error |-> IF call.op = "findDeviceInfo" /\ i = 0 THEN "DeviceNotFound" ELSE "none",
        device |-> IF i # 0 THEN result[i] ELSE NoDevice]

LastReturned == returned[Len(returned)]

Record(s) ==
    IF Len(returned) < 2 THEN Append(returned, s) ELSE <<returned[2], s>>

(* getAllDevices, first segment, cache hit: return cache.devicesList *)
GetAllDevicesCached(c, op, forceRefresh, query) ==
    /\ calls[c].pc = "idle"
    /\ CacheFresh(forceRefresh, now)
    /\ returned' = Record(Summary([IdleCall EXCEPT !.op = op, !.forceRefresh = forceRefresh,
                                                   !.now = now, !.query = query,
                                                   !.cachedAt = cache.deviceListTimestamp],
                                  TRUE, cache.devicesList))
    /\ UNCHANGED <<now, cache, calls, scanned>>

(* getAllDevices, first segment, cache miss: issue `xcrun xctrace list devices` *)
GetAllDevicesBegin(c, op, forceRefresh, query) ==
    /\ calls[c].pc = "idle"
    /\ ~CacheFresh(forceRefresh, now)
    /\ calls' = [calls EXCEPT ![c] = [pc |-> "xctrace", op |-> op,
                                      forceRefresh |-> forceRefresh, now |-> now,
                                      cachedAt |-> cache.deviceListTimestamp,
                                      devices |-> <<>>, cmds |-> <<"xctrace">>,
                                      query |-> query]]
    /\ scanned' = [scanned EXCEPT ![c] = NoScan]
    /\ UNCHANGED <<now, cache, returned>>

(* XctraceDone storing the xctrace records in the cache before the cycle ends *)
XctraceDone_StoresEarly(c, out) ==
    /\ calls[c].pc = "xctrace"
    /\ calls' = [calls EXCEPT ![c].pc = "toolpath",
                              ![c].devices = IF out.ok THEN XctraceScan(<<>>, out.lines)
                                             ELSE <<>>]
    /\ scanned' = [scanned EXCEPT ![c].xctrace = out]
    /\ cache' = [cache EXCEPT !.hasDevicesList = TRUE,
                              !.devicesList = IF out.ok THEN XctraceScan(<<>>, out.lines)
                                              ELSE <<>>]
    /\ UNCHANGED <<now, returned>>

(* the xctrace command settled: parse its lines, or log its error; then await
   getDeviceCtlPath() *)
XctraceDone(c, out) ==
    /\ calls[c].pc = "xctrace"
    /\ calls' = [calls EXCEPT ![c].pc = "toolpath",
                              ![c].devices = IF out.ok THEN XctraceScan(<<>>, out.lines)
                                             ELSE <<>>]
    /\ scanned' = [scanned EXCEPT ![c].xctrace = out]
    /\ UNCHANGED <<now, cache, returned>>

(* getDeviceCtlPath() settled (it never rejects): issue `devicectl list devices` *)
ToolPathDone(c) ==
    /\ calls[c].pc = "toolpath"
    /\ calls' = [calls EXCEPT ![c].pc = "devicectl",
                              ![c].cmds = Append(@, "devicectl")]
    /\ UNCHANGED <<now, cache, returned, scanned>>

(* DevicectlDone where a failed devicectl command discards the xctrace records *)
DevicectlDone_FailureDiscards(c, out) ==
    /\ calls[c].pc = "devicectl"
    /\ LET trace == IF out.ok THEN DevicectlTrace(calls[c].devices, out.lines)
                    ELSE << <<>> >>
           devices == trace[Len(trace)]
       IN /\ cache' = [hasDevicesList |-> TRUE, devicesList |-> devices,
                       deviceListTimestamp |-> calls[c].now]
          /\ returned' = Record(Summary(calls[c], FALSE, devices))
          /\ scanned' = [scanned EXCEPT ![c].devicectl = out, ![c].trace = trace]
    /\ calls' = [calls EXCEPT ![c] = IdleCall]
    /\ UNCHANGED now

(* DevicectlDone where a cycle whose both commands failed commits nothing *)
DevicectlDone_FailureSkipsCommit(c, out) ==
    /\ calls[c].pc = "devicectl"
    /\ LET trace == IF out.ok THEN DevicectlTrace(calls[c].devices, out.lines)
                    ELSE <<calls[c].devices>>
           devices == trace[Len(trace)]
       IN /\ cache' = IF out.ok \/ scanned[c].xctrace.ok
                       THEN [hasDevicesList |-> TRUE, devicesList |-> devices,
                             deviceListTimestamp |-> calls[c].now]
                       ELSE cache
          /\ returned' = Record(Summary(calls[c], FALSE, devices))
          /\ scanned' = [scanned EXCEPT ![c].devicectl = out, ![c].trace = trace]
    /\ calls' = [calls EXCEPT ![c] = IdleCall]
    /\ UNCHANGED now

(* the devicectl command settled: merge its rows, or log its error; commit the
   cache with the time the call started; return the list *)
DevicectlDone(c, out) ==
    /\ calls[c].pc = "devicectl"
    /\ LET trace == IF out.ok THEN DevicectlTrace(calls[c].devices, out.lines)
                    ELSE <<calls[c].devices>>
           devices == trace[Len(trace)]
       IN /\ cache' = [hasDevicesList |-> TRUE, devicesList |-> devices,
                       deviceListTimestamp |-> calls[c].now]
          /\ returned' = Record(Summary(calls[c], FALSE, devices))
          /\ scanned' = [scanned EXCEPT ![c].devicectl = out, ![c].trace = trace]
    /\ calls' = [calls EXCEPT ![c] = IdleCall]
    /\ UNCHANGED now

(* time passes *)
Tick ==
    /\ now < MaxTime
    /\ now' = now + 1
    /\ UNCHANGED <<cache, calls, returned, scanned, run, commands, bundleIds, toolVars>>

----------------------------------------------------------------------------
(* executeCommand: the denylist test, then the child process.  A command is a
   sequence of characters; the three regular expressions are computed on it. *)

(* \s, as far as the commands below use it *)
IsSpace(ch) == ch \in {" ", "\t"}

(* lit occurs in s at position i *)
Lit(s, i, lit) ==
    /\ i >= 1
    /\ i + Len(lit) - 1 <= Len(s)
    /\ SubSeq(s, i, i + Len(lit) - 1) = lit

(* \s+ matches s[i..j-1] *)
Spaces(s, i, j) ==
    /\ j > i
    /\ \A k \in i..(j - 1) : IsSpace(s[k])

(* /rm\s+-rf\s+\//.test(s) *)
MatchRmRf(s) ==
    \E i \in 1..Len(s) :
        /\ Lit(s, i, <<"r", "m">>)
        /\ \E j \in (i + 3)..Len(s) :
              /\ Spaces(s, i + 2, j)
              /\ Lit(s, j, <<"-", "r", "f">>)
              /\ \E k \in (j + 4)..Len(s) :
                    /\ Spaces(s, j + 3, k)
                    /\ Lit(s, k, <<"/">>)

(* /mkfs/.test(s) *)
MatchMkfs(s) ==
    \E i \in 1..Len(s) : Lit(s, i, <<"m", "k", "f", "s">>)

(* /dd\s+if/.test(s) *)
MatchDdIf(s) ==
    \E i \in 1..Len(s) :
        /\ Lit(s, i, <<"d", "d">>)
        /\ \E j \in (i + 3)..Len(s) :
              /\ Spaces(s, i + 2, j)
              /\ Lit(s, j, <<"i", "f">>)

(* the condition of the throw in executeCommand *)
Denylisted(command) ==
    MatchRmRf(command) \/ MatchMkfs(command) \/ MatchDdIf(command)

IdleExec == [pc |-> "idle", caller |-> "none", command |-> <<>>, spawned |-> FALSE,
             outcome |-> "none"]

(* how a child process ends: with its output; with an error whose message
   contains 'timeout'; with any other error (a non-zero exit, or the kill at
   the time limit, whose message is 'Command failed: ...') *)
ChildOutcomes == {"ok", "timeoutMessage", "error"}

(* ExecuteCommand without the denylist test *)
ExecuteCommand_NoFilter(caller, command) ==
    /\ exec.pc # "awaitExec"
    /\ exec' = [pc |-> "awaitExec", caller |-> caller, command |-> command,
                spawned |-> TRUE, outcome |-> "none"]

(* executeCommand up to its await: throw on a denylisted command, else spawn
   the child process *)
ExecuteCommand(caller, command) ==
    /\ exec.pc # "awaitExec"
    /\ exec' = IF Denylisted(command)
               THEN [pc |-> "settled", caller |-> caller, command |-> command,
                     spawned |-> FALSE, outcome |-> "SecurityViolation"]
               ELSE [pc |-> "awaitExec", caller |-> caller, command |-> command,
                     spawned |-> TRUE, outcome |-> "none"]

(* the child process ended: return its output, or log and rethrow its error *)
ExecSettled(outcome) ==
    /\ exec.pc = "awaitExec"
    /\ exec' = [exec EXCEPT !.pc = "settled", !.outcome = outcome]

----------------------------------------------------------------------------
(* startDeviceLogStream *)

IdleStream == [pc |-> "idle", deviceId |-> undefined, bundleId |-> undefined,
               view |-> "none", settled |-> "none", path |-> "none"]

(* up to the await of getDeviceCtlPath *)
StartDeviceLogStream(deviceId, bundleId) ==
    stream' = [pc |-> "awaitToolPath", deviceId |-> deviceId, bundleId |-> bundleId,
               view |-> "none", settled |-> "none", path |-> "none"]

(* getDeviceCtlPath settled (it never rejects): the view command is issued *)
StreamToolPathDone ==
    /\ stream.pc = "awaitToolPath"
    /\ stream' = [stream EXCEPT !.pc = "awaitView"]

(* StreamViewDone with an outer catch that rethrows *)
StreamViewDone_Rethrows(outcome) ==
    /\ stream.pc = "awaitView"
    /\ stream' = [stream EXCEPT
                    !.pc = "settled",
                    !.view = outcome,
                    !.settled = IF outcome \in {"ok", "timeoutMessage"}
                                THEN "resolved" ELSE "rejected",
                    !.path = IF outcome = "ok" THEN "completed"
                             ELSE IF outcome = "timeoutMessage" THEN "timeoutExpected"
                             ELSE "errorLogged"]

(* the view command settled: completion, the inner catch (a message containing
   'timeout' is expected, anything else is rethrown) and the outer catch (log
   only) all end in a normal return *)
StreamViewDone(outcome) ==
    /\ stream.pc = "awaitView"
    /\ stream' = [stream EXCEPT
                    !.pc = "settled",
                    !.view = outcome,
                    !.settled = "resolved",
                    !.path = IF outcome = "ok" THEN "completed"
                             ELSE IF outcome = "timeoutMessage" THEN "timeoutExpected"
                             ELSE "errorLogged"]

----------------------------------------------------------------------------
(* findXcodeInstallations *)

(* xcode.hasInstallations and xcode.installations are cache.xcodeInstallations;
   xcode.calls are the activations; xcode.returned (the latest completed call)
   and xcode.first (what the first successful enumeration stored) are history *)

(* what `ls -d /Applications/Xcode*.app` prints when it succeeds: the matching
   paths, sorted *)
XcodePathLists == {<<"Xcode-beta.app">>, <<"Xcode.app">>, <<"Xcode-beta.app", "Xcode.app">>}

LsOutputs == [ok : {TRUE}, paths : XcodePathLists] \cup {[ok |-> FALSE, paths |-> <<>>]}

(* a variant that returns no installation when the enumeration fails *)
DefaultInstallations_Empty ==
    <<>>

(* the value returned when the enumeration fails *)
DefaultInstallations ==
    <<[path |-> "Xcode.app", version |-> "unknown", buildNumber |-> "undefined"]>>

(* reads records, per path, how its metadata reads ended: "ok", or the read
   that failed *)
IdleLookup == [pc |-> "idle", paths |-> <<>>, i |-> 0, installations |-> <<>>,
               cmds |-> 0, afterFirst |-> FALSE, reads |-> <<>>]

NoLookup == [caller |-> 0, hit |-> FALSE, failed |-> FALSE, cmds |-> 0,
             afterFirst |-> FALSE, result |-> <<>>, flip |-> FALSE,
             paths |-> <<>>, reads |-> <<>>]

NoXcode == [hasInstallations |-> FALSE, installations |-> <<>>,
            calls |-> [c \in Callers |-> IdleLookup],
            first |-> [set |-> FALSE, installations |-> <<>>],
            returned |-> NoLookup]

LookupSummary(c, hit, failed, cmds, afterFirst, result) ==
    [caller |-> c, hit |-> hit, failed |-> failed, cmds |-> cmds,
     afterFirst |-> afterFirst, result |-> result, flip |-> ~xcode.returned.flip,
     paths |-> <<>>, reads |-> <<>>]

(* if (cache.xcodeInstallations) *)
Memoized ==
    xcode.hasInstallations

(* findXcodeInstallations: the cached value is returned *)
FindXcodeInstallationsCached(c) ==
    /\ xcode.calls[c].pc = "idle"
    /\ Memoized
    /\ xcode' = [xcode EXCEPT !.returned =
                    LookupSummary(c, TRUE, FALSE, 0, xcode.first.set, xcode.installations)]

(* findXcodeInstallations: nothing cached, the ls command is issued *)
FindXcodeInstallationsBegin(c) ==
    /\ xcode.calls[c].pc = "idle"
    /\ ~Memoized
    /\ xcode' = [xcode EXCEPT !.calls[c] = [IdleLookup EXCEPT !.pc = "ls", !.cmds = 1,
                                                            !.afterFirst = xcode.first.set]]

(* the ls command settled: the default is returned and nothing stored, or the
   version command of the first path is issued *)
LsDone(c, out) ==
    /\ xcode.calls[c].pc = "ls"
    /\ IF out.ok
       THEN xcode' = [xcode EXCEPT !.calls[c].pc = "version",
                                   !.calls[c].paths = out.paths,
                                   !.calls[c].i = 1,
                                   !.calls[c].cmds = @ + 1]
       ELSE xcode' = [xcode EXCEPT !.calls[c] = IdleLookup,
                                   !.returned =
                                       LookupSummary(c, FALSE, TRUE, xcode.calls[c].cmds,
                                                     xcode.calls[c].afterFirst,
                                                     DefaultInstallations)]

(* installations.push(inst); then the next path, or the list is stored in the
   cache and returned *)
Pushed(c, inst, read) ==
    LET call == xcode.calls[c]
        installations == Append(call.installations, inst)
        reads == Append(call.reads, read)
    IN IF call.i < Len(call.paths)
       THEN xcode' = [xcode EXCEPT !.calls[c].pc = "version",
                                   !.calls[c].i = @ + 1,
                                   !.calls[c].installations = installations,
                                   !.calls[c].reads = reads,
                                   !.calls[c].cmds = @ + 1]
       ELSE xcode' = [xcode EXCEPT !.calls[c] = IdleLookup,
                                   !.hasInstallations = TRUE,
                                   !.installations = installations,
                                   !.first = IF @.set THEN @
                                             ELSE [set |-> TRUE,
                                                   installations |-> installations],
                                   !.returned =
                                       [LookupSummary(c, FALSE, FALSE, call.cmds,
                                                      call.afterFirst, installations)
                                           EXCEPT !.paths = call.paths,
                                                  !.reads = reads]]

(* the version command settled: the build command is issued, or the path is
   pushed with version 'unknown' *)
VersionDone(c, ok) ==
    /\ xcode.calls[c].pc = "version"
    /\ IF ok
       THEN xcode' = [xcode EXCEPT !.calls[c].pc = "build", !.calls[c].cmds = @ + 1]
       ELSE Pushed(c, [path |-> xcode.calls[c].paths[xcode.calls[c].i],
                       version |-> "unknown", buildNumber |-> "undefined"],
                   "versionFailed")

(* the build command settled *)
BuildDone(c, ok) ==
    /\ xcode.calls[c].pc = "build"
    /\ Pushed(c, [path |-> xcode.calls[c].paths[xcode.calls[c].i],
                  version |-> IF ok THEN "version" ELSE "unknown",
                  buildNumber |-> IF ok THEN "build" ELSE "undefined"],
              IF ok THEN "ok" ELSE "buildFailed")

----------------------------------------------------------------------------
(* getDeviceCtlPath *)

(* tool.deviceCtlPaths is cache.deviceCtlPaths; tool.call is the activation;
   tool.observed (the latest outcome of the executable check of each
   installation's tool) and tool.returned (the latest completed call) are
   history *)

(* no xcodePath argument *)
NoPath == ""

(* the installation paths a caller may pass or the enumeration may list *)
ToolKeys == {"Xcode-beta.app", "Xcode.app", "Other.app"}

(* `${xcodePath}/Contents/Developer/usr/bin/devicectl` *)
ToolPath(xcodePath) ==
    <<xcodePath, "/Contents/Developer/usr/bin/devicectl">>

(* no entry in cache.deviceCtlPaths *)
NoToolPath == <<>>

(* '/Applications/Xcode.app/Contents/Developer/usr/bin/devicectl' *)
DefaultToolPath ==
    ToolPath("Xcode.app")

IdleResolve == [pc |-> "idle", xcodePath |-> NoPath, given |-> "none",
                installations |-> <<>>, i |-> 0, checks |-> <<>>]

NoResolve == [called |-> FALSE, xcodePath |-> NoPath, hit |-> FALSE, given |-> "none",
              enumerated |-> FALSE, installations |-> <<>>, checks |-> <<>>,
              result |-> NoToolPath, flip |-> FALSE]

NoTool == [deviceCtlPaths |-> [k \in ToolKeys |-> NoToolPath],
           call |-> IdleResolve,
           observed |-> [k \in ToolKeys |-> "unknown"],
           returned |-> NoResolve]

ResolveSummary(hit, enumerated, checks, result) ==
    [called |-> TRUE, xcodePath |-> tool.call.xcodePath, hit |-> hit,
     given |-> tool.call.given, enumerated |-> enumerated,
     installations |-> tool.call.installations, checks |-> checks,
     result |-> result, flip |-> ~tool.returned.flip]

(* a variant that never finds a cached tool path *)
ToolPathCached_Never(xcodePath) ==
    FALSE

(* cache.deviceCtlPaths && cache.deviceCtlPaths[xcodePath] *)
ToolPathCached(xcodePath) ==
    tool.deviceCtlPaths[xcodePath] # NoToolPath

(* await findXcodeInstallations(), called by getDeviceCtlPath as caller 1 *)
CallFindXcodeInstallations ==
    FindXcodeInstallationsCached(1) \/ FindXcodeInstallationsBegin(1)

(* getDeviceCtlPath is called: the cached path of the given installation is
   returned, or the executable check of its tool is issued, or, with no
   installation given, the installations are looked up *)
GetDeviceCtlPath(xcodePath) ==
    /\ tool.call.pc = "idle"
    /\ IF xcodePath # NoPath /\ ToolPathCached(xcodePath)
       THEN /\ tool' = [tool EXCEPT !.returned =
                           [ResolveSummary(TRUE, FALSE, <<>>, tool.deviceCtlPaths[xcodePath])
                               EXCEPT !.xcodePath = xcodePath]]
            /\ UNCHANGED xcode
       ELSE IF xcodePath # NoPath
       THEN /\ tool' = [tool EXCEPT !.call = [IdleResolve EXCEPT !.pc = "access",
                                                                !.xcodePath = xcodePath]]
            /\ UNCHANGED xcode
       ELSE /\ tool' = [tool EXCEPT !.call = [IdleResolve EXCEPT !.pc = "installations"]]
            /\ CallFindXcodeInstallations

(* fs.promises.access of the given installation's tool settled: the path is
   cached and returned, or the installations are looked up *)
AccessDone(ok) ==
    /\ tool.call.pc = "access"
    /\ LET k == tool.call.xcodePath
       IN IF ok
          THEN /\ tool' = [tool EXCEPT !.deviceCtlPaths[k] = ToolPath(k),
                                       !.observed[k] = "ok",
                                       !.call = IdleResolve,
                                       !.returned =
                                           [ResolveSummary(FALSE, FALSE, <<>>, ToolPath(k))
                                               EXCEPT !.given = "ok"]]
               /\ UNCHANGED xcode
          ELSE /\ tool' = [tool EXCEPT !.observed[k] = "failed",
                                       !.call.pc = "installations",
                                       !.call.given = "failed"]
               /\ CallFindXcodeInstallations

(* findXcodeInstallations returned: the executable check of the first
   installation's tool is issued *)
InstallationsDone ==
    /\ tool.call.pc = "installations"
    /\ xcode.calls[1].pc = "idle"
    /\ LET installations == xcode.returned.result
       IN IF installations = <<>>
          THEN tool' = [tool EXCEPT !.call = IdleResolve,
                                    !.returned =
                                        ResolveSummary(FALSE, TRUE, <<>>, DefaultToolPath)]
          ELSE tool' = [tool EXCEPT !.call.pc = "loop",
                                    !.call.installations = installations,
                                    !.call.i = 1]
    /\ UNCHANGED xcode

(* a variant whose loop gives up at the first installation that does not verify *)
LoopAccessDone_StopsAtFirst(ok) ==
    /\ tool.call.pc = "loop"
    /\ LET k == tool.call.installations[tool.call.i].path
           checks == Append(tool.call.checks, [path |-> k, ok |-> ok])
       IN IF ok
          THEN tool' = [tool EXCEPT !.deviceCtlPaths[k] = ToolPath(k),
                                    !.observed[k] = "ok",
                                    !.call = IdleResolve,
                                    !.returned =
                                        ResolveSummary(FALSE, TRUE, checks, ToolPath(k))]
          ELSE tool' = [tool EXCEPT !.observed[k] = "failed",
                                    !.call = IdleResolve,
                                    !.returned =
                                        ResolveSummary(FALSE, TRUE, checks, DefaultToolPath)]
    /\ UNCHANGED xcode

(* a variant whose loop stores the path it found under the path the caller gave *)
LoopAccessDone_StoresUnderGiven(ok) ==
    /\ tool.call.pc = "loop"
    /\ LET k == tool.call.installations[tool.call.i].path
           key == IF tool.call.xcodePath # NoPath THEN tool.call.xcodePath ELSE k
           checks == Append(tool.call.checks, [path |-> k, ok |-> ok])
       IN IF ok
          THEN tool' = [tool EXCEPT !.deviceCtlPaths[key] = ToolPath(k),
                                    !.observed[k] = "ok",
                                    !.call = IdleResolve,
                                    !.returned =
                                        ResolveSummary(FALSE, TRUE, checks, ToolPath(k))]
          ELSE IF tool.call.i < Len(tool.call.installations)
          THEN tool' = [tool EXCEPT !.observed[k] = "failed",
                                    !.call.i = @ + 1,
                                    !.call.checks = checks]
          ELSE tool' = [tool EXCEPT !.observed[k] = "failed",
                                    !.call = IdleResolve,
                                    !.returned =
                                        ResolveSummary(FALSE, TRUE, checks, DefaultToolPath)]
    /\ UNCHANGED xcode

(* fs.promises.access of an installation's tool settled inside the loop: the
   path is cached under the installation's path and returned, or the next
   installation is checked, or the default path is returned *)
LoopAccessDone(ok) ==
    /\ tool.call.pc = "loop"
    /\ LET k == tool.call.installations[tool.call.i].path
           checks == Append(tool.call.checks, [path |-> k, ok |-> ok])
       IN IF ok
          THEN tool' = [tool EXCEPT !.deviceCtlPaths[k] = ToolPath(k),
                                    !.observed[k] = "ok",
                                    !.call = IdleResolve,
                                    !.returned =
                                        ResolveSummary(FALSE, TRUE, checks, ToolPath(k))]
          ELSE IF tool.call.i < Len(tool.call.installations)
          THEN tool' = [tool EXCEPT !.observed[k] = "failed",
                                    !.call.i = @ + 1,
                                    !.call.checks = checks]
          ELSE tool' = [tool EXCEPT !.observed[k] = "failed",
                                    !.call = IdleResolve,
                                    !.returned =
                                        ResolveSummary(FALSE, TRUE, checks, DefaultToolPath)]
    /\ UNCHANGED xcode

----------------------------------------------------------------------------
(* getBundleIdentifier *)

(* bundle.bundleIds is cache.bundleIds, by cache key; bundle.call is the
   activation; bundle.succeeded (the pairs whose settings command yielded a
   value), bundle.entries (per key, the pairs that stored it or were served
   from it) and bundle.returned (the latest completed call) are history *)

ProjectPaths == {<<"a">>, <<"a", "-", "b">>, <<"a", ".xcworkspace">>}

Schemes == {<<"c">>, <<"b", "-", "c">>}

BundlePairs == ProjectPaths \X Schemes

(* `${projectPath}-${scheme}` *)
CacheKey(projectPath, scheme) ==
    projectPath \o <<"-">> \o scheme

BundleKeys == {CacheKey(pair[1], pair[2]) : pair \in BundlePairs}

(* projectPath.endsWith(".xcworkspace") *)
IsWorkspace(projectPath) ==
    /\ Len(projectPath) >= 1
    /\ projectPath[Len(projectPath)] = ".xcworkspace"

(* the settings command: -workspace or -project, and the scheme *)
SettingsCommand(projectPath, scheme) ==
    [container |-> IF IsWorkspace(projectPath) THEN "-workspace" ELSE "-project",
     projectPath |-> projectPath, scheme |-> scheme]

(* \s of the regular expression, over the characters of the model *)
IsWhite(ch) == ch \in {" ", "\t", "\n"}

(* a character the dot of the regular expression does not match *)
IsLineTerminator(ch) == ch = "\n"

(* the literal PRODUCT_BUNDLE_IDENTIFIER, one element of the text *)
SettingName == "PRODUCT_BUNDLE_IDENTIFIER"

(* the index of the first character of s at or after i that is not white
   space; Len(s) + 1 when there is none *)
SkipWhite(s, i) ==
    IF \E j \in i..Len(s) : ~IsWhite(s[j])
    THEN CHOOSE j \in i..Len(s) : ~IsWhite(s[j]) /\ \A k \in i..(j - 1) : IsWhite(s[k])
    ELSE Len(s) + 1

(* the start of the group (.+) when /PRODUCT_BUNDLE_IDENTIFIER\s*=\s*(.+)$/
   matches with the name at index i: the second \s* takes all the white space
   it can while leaving the group one character, and the group runs to the end
   of the text; 0 when there is no match at i *)
GroupStart(s, i) ==
    IF s[i] # SettingName THEN 0
    ELSE LET eq == SkipWhite(s, i + 1)
         IN IF eq > Len(s) \/ s[eq] # "=" \/ eq = Len(s) THEN 0
            ELSE LET g == IF SkipWhite(s, eq + 1) > Len(s) THEN Len(s)
                          ELSE SkipWhite(s, eq + 1)
                 IN IF \E j \in g..Len(s) : IsLineTerminator(s[j]) THEN 0 ELSE g

(* stdout.match(...): the group of the leftmost match, or undefined *)
BundleIdMatch(stdout) ==
    LET starts == {i \in 1..Len(stdout) : GroupStart(stdout, i) > 0}
    IN IF starts = {} THEN undefined
       ELSE LET i == CHOOSE i \in starts : \A j \in starts : i <= j
            IN SubSeq(stdout, GroupStart(stdout, i), Len(stdout))

(* String.prototype.trim *)
Trim(s) ==
    LET black == {i \in 1..Len(s) : ~IsWhite(s[i])}
    IN IF black = {} THEN <<>>
       ELSE SubSeq(s, CHOOSE i \in black : \A j \in black : i <= j,
                      CHOOSE i \in black : \A j \in black : i >= j)

(* what the settings command pipeline may write to stdout when it exits with 0 *)
SettingsOutputs ==
    {<<SettingName, " ", "=", " ", "x">>,
     <<SettingName, " ", "=", " ", "y", " ">>,
     <<SettingName, " ", "=", " ", "x", "\n">>,
     <<SettingName, " ", "=", " ">>,
     <<SettingName, " ", "x">>}

SettingsResults ==
    [ok : {TRUE}, stdout : SettingsOutputs] \cup {[ok |-> FALSE, stdout |-> <<>>]}

IdleSettings == [pc |-> "idle", projectPath |-> <<>>, scheme |-> <<>>,
                 command |-> [container |-> "none", projectPath |-> <<>>, scheme |-> <<>>]]

NoIdentifier == [called |-> FALSE, projectPath |-> <<>>, scheme |-> <<>>, hit |-> FALSE,
                 issued |-> 0, threw |-> FALSE, value |-> undefined, flip |-> FALSE,
                 stdout |-> <<>>]

NoBundle == [bundleIds |-> [k \in BundleKeys |-> undefined],
             call |-> IdleSettings,
             succeeded |-> {},
             entries |-> [k \in BundleKeys |-> {}],
             returned |-> NoIdentifier]

IdentifierSummary(projectPath, scheme, hit, issued, threw, value) ==
    [called |-> TRUE, projectPath |-> projectPath, scheme |-> scheme, hit |-> hit,
     issued |-> issued, threw |-> threw, value |-> value, flip |-> ~bundle.returned.flip,
     stdout |-> <<>>]

(* cache.bundleIds && cache.bundleIds[cacheKey]: an entry that is not the empty
   string *)
BundleIdCached(cacheKey) ==
    /\ bundle.bundleIds[cacheKey] # undefined
    /\ bundle.bundleIds[cacheKey] # <<>>

(* getBundleIdentifier is called: the cached value is returned, or the settings
   command is issued *)
GetBundleIdentifier(projectPath, scheme) ==
    LET cacheKey == CacheKey(projectPath, scheme)
    IN /\ bundle.call.pc = "idle"
       /\ IF BundleIdCached(cacheKey)
          THEN bundle' = [bundle EXCEPT
                             !.entries[cacheKey] = @ \cup {<<projectPath, scheme>>},
                             !.returned = IdentifierSummary(projectPath, scheme, TRUE, 0, FALSE,
                                                            bundle.bundleIds[cacheKey])]
          ELSE bundle' = [bundle EXCEPT
                             !.call = [pc |-> "awaitSettings", projectPath |-> projectPath,
                                       scheme |-> scheme,
                                       command |-> SettingsCommand(projectPath, scheme)]]

(* the settings command settled: the trimmed group is stored under the cache
   key and returned, or the call throws *)
SettingsDone(out) ==
    LET call == bundle.call
        cacheKey == CacheKey(call.projectPath, call.scheme)
        match == IF out.ok THEN BundleIdMatch(out.stdout) ELSE undefined
    IN /\ call.pc = "awaitSettings"
       /\ IF match # undefined
          THEN bundle' = [bundle EXCEPT
                             !.bundleIds[cacheKey] = Trim(match),
                             !.call = IdleSettings,
                             !.succeeded = @ \cup {<<call.projectPath, call.scheme>>},
                             !.entries[cacheKey] = @ \cup {<<call.projectPath, call.scheme>>},
                             !.returned =
                                 [IdentifierSummary(call.projectPath, call.scheme,
                                                    FALSE, 1, FALSE, Trim(match))
                                     EXCEPT !.stdout = out.stdout]]
          ELSE bundle' = [bundle EXCEPT
                             !.call = IdleSettings,
                             !.returned =
                                 [IdentifierSummary(call.projectPath, call.scheme,
                                                    FALSE, 1, TRUE, undefined)
                                     EXCEPT !.stdout = out.stdout]]

----------------------------------------------------------------------------
(* The environment variables of run-on-device: stage 7 parses the string into
   an object, launchAppOnDevice serializes the object into the launch command.
   An object is modelled as the sequence of its [key, value] entries in the
   order Object.entries reports them. *)

(* the most pairs in an environment string *)
MaxPairs == 2

EnvKeys == {<<"k">>, <<"j">>, <<"1">>}

EnvValues == {<<"v">>, <<"v", "=", "w">>, <<"=", "v">>}

(* String.prototype.split(sep) for a one-character separator *)
RECURSIVE Split(_, _)
Split(str, sep) ==
    IF \E i \in 1..Len(str) : str[i] = sep
    THEN LET i == CHOOSE i \in 1..Len(str) :
                      str[i] = sep /\ \A j \in 1..(i - 1) : str[j] # sep
         IN <<SubSeq(str, 1, i - 1)>> \o Split(SubSeq(str, i + 1, Len(str)), sep)
    ELSE <<str>>

(* Array.prototype.join(sep) *)
RECURSIVE Join(_, _)
Join(parts, sep) ==
    IF parts = <<>> THEN <<>>
    ELSE IF Len(parts) = 1 THEN parts[1]
    ELSE parts[1] \o <<sep>> \o Join(Tail(parts), sep)

(* a property name that is an array index (here: one digit): such properties
   are enumerated first, in ascending order *)
IsIndexKey(key) ==
    Len(key) = 1 /\ key[1] \in {"0", "1", "2", "3", "4", "5", "6", "7", "8", "9"}

IndexOf(key) ==
    CHOOSE n \in 0..9 : <<"0", "1", "2", "3", "4", "5", "6", "7", "8", "9">>[n + 1] = key[1]

(* envVars[key] = value: an existing property keeps its place; a new index
   property goes among the index properties, a new string property last *)
SetProperty(entries, key, value) ==
    IF \E i \in 1..Len(entries) : entries[i].key = key
    THEN [i \in 1..Len(entries) |->
             IF entries[i].key = key THEN [key |-> key, value |-> value] ELSE entries[i]]
    ELSE IF IsIndexKey(key)
    THEN LET before == {i \in 1..Len(entries) :
                           IsIndexKey(entries[i].key) /\ IndexOf(entries[i].key) < IndexOf(key)}
             n == Cardinality(before)
         IN SubSeq(entries, 1, n) \o <<[key |-> key, value |-> value]>>
                \o SubSeq(entries, n + 1, Len(entries))
    ELSE Append(entries, [key |-> key, value |-> value])

(* the body of the forEach of stage 7: const [key, value] = pair.split('=');
   if (key && value) envVars[key] = value *)
ParsePair(entries, pair) ==
    LET parts == Split(pair, "=")
        key == parts[1]
        value == IF Len(parts) >= 2 THEN parts[2] ELSE <<>>
    IN IF key # <<>> /\ value # <<>> THEN SetProperty(entries, key, value) ELSE entries

RECURSIVE ParsePairs(_, _)
ParsePairs(entries, pairs) ==
    IF pairs = <<>> THEN entries
    ELSE ParsePairs(ParsePair(entries, pairs[1]), Tail(pairs))

(* stage 7: environmentVars.split(',').forEach(...), when the string is not empty *)
ParseEnvironment(environmentVars) ==
    IF environmentVars = <<>> THEN <<>>
    ELSE ParsePairs(<<>>, Split(environmentVars, ","))

(* launchAppOnDevice: Object.entries(environmentVars).map(`${key}=${value}`).join(",") *)
SerializeEnvironment(entries) ==
    Join([i \in 1..Len(entries) |-> entries[i].key \o <<"=">> \o entries[i].value], ",")

(* the sequences of at most n pairs with distinct keys *)
RECURSIVE PairLists(_)
PairLists(n) ==
    IF n = 0 THEN {<<>>}
    ELSE LET shorter == PairLists(n - 1)
         IN shorter \cup
            {Append(l, [key |-> k, value |-> v]) :
                l \in {m \in shorter : Len(m) = n - 1}, k \in EnvKeys, v \in EnvValues}

(* the environment strings: key=value pairs joined by commas, the keys distinct
   and not empty, the values not empty and without a comma *)
EnvStrings ==
    {SerializeEnvironment(l) :
        l \in {m \in PairLists(MaxPairs) :
                  \A i, j \in 1..Len(m) : i # j => m[i].key # m[j].key}}

----------------------------------------------------------------------------
(* Spec: the cache over time; one caller, calls one after the other *)

CacheNames == {<<"a">>}

CacheIds == {<<"b">>}

IdleRun == [pc |-> "idle",
            args |-> [listDevices |-> FALSE, xcodePath |-> FALSE, skipBuild |-> FALSE,
                      directBundleId |-> FALSE, streamLogs |-> FALSE, device |-> undefined],
            deviceInfo |-> NoDevice,
            appPath |-> FALSE,
            deviceCtlPath |-> NoToolPath,
            launches |-> <<>>,
            logStream |-> FALSE,
            result |-> [isError |-> FALSE, text |-> "none"]]

Init ==
    /\ now = 1
    /\ cache = EmptyCache
    /\ calls = [c \in Callers |-> IdleCall]
    /\ returned = <<>>
    /\ scanned = [c \in Callers |-> NoScan]
    /\ run = IdleRun
    /\ commands = <<>>
    /\ bundleIds = FALSE
    /\ exec = IdleExec
    /\ stream = IdleStream
    /\ xcode = NoXcode
    /\ tool = NoTool
    /\ bundle = NoBundle

CacheXctraceOutputs == XctraceOutputs(CacheNames, CacheIds, 1)

CacheDevicectlOutputs == DevicectlOutputs(CacheNames, CacheIds, 1)

CallCached ==
    /\ \E f \in BOOLEAN : GetAllDevicesCached(1, "getAllDevices", f, undefined)
    /\ UNCHANGED <<runVars, toolVars>>

CallBegin ==
    /\ \E f \in BOOLEAN : GetAllDevicesBegin(1, "getAllDevices", f, undefined)
    /\ UNCHANGED <<runVars, toolVars>>

CallXctrace ==
    /\ \E out \in CacheXctraceOutputs : XctraceDone(1, out)
    /\ UNCHANGED <<runVars, toolVars>>

CallToolPath ==
    /\ ToolPathDone(1)
    /\ UNCHANGED <<runVars, toolVars>>

CallDevicectl ==
    /\ \E out \in CacheDevicectlOutputs : DevicectlDone(1, out)
    /\ UNCHANGED <<runVars, toolVars>>

Next == Tick \/ CallCached \/ CallBegin \/ CallXctrace \/ CallToolPath \/ CallDevicectl

Spec == Init /\ [][Next]_vars

----------------------------------------------------------------------------
(* The run-on-device handler (index.ts) with launchAppOnDevice and
   installAppOnDevice (device-runner.ts).  The handler is caller 1 of the
   registry.  A command is logged when executeCommand is called, with outcome
   "pending", and settled when its promise settles: "ok", "notInstalled" (an
   error whose message contains 'is not installed'), "error" (any other error),
   "noMatch" (output without the line looked for). *)

Issue(log, cmd) == Append(log, [cmd |-> cmd, outcome |-> "pending"])

Settle(log, outcome) == [log EXCEPT ![Len(log)].outcome = outcome]

ErrorOutcomes == {"notInstalled", "error"}

(* a result envelope: one text block, isError set on failure *)
Success(text) == [isError |-> FALSE, text |-> text]

(* Failure without the error flag *)
Failure_NoFlag(text) == [isError |-> FALSE, text |-> text]

Failure(text) == [isError |-> TRUE, text |-> text]

(* the listing of stage 0: per record its name and the identifiers it has *)
DeviceListText(devices) ==
    [i \in 1..Len(devices) |->
        <<devices[i].name>>
        \o (IF devices[i].xcodeId # undefined THEN <<devices[i].xcodeId>> ELSE <<>>)
        \o (IF devices[i].deviceCtlId # undefined THEN <<devices[i].deviceCtlId>> ELSE <<>>)]

Listing(devices) ==
    [isError |-> FALSE, text |-> "deviceList", lines |-> DeviceListText(devices)]

Finish(result) == run' = [run EXCEPT !.pc = "done", !.result = result]

(* CallFindDeviceInfo calling getAllDevices(true) *)
CallFindDeviceInfo_Forced(device) ==
    GetAllDevicesBegin(1, "findDeviceInfo", TRUE, device)

(* findDeviceInfo(device), up to its first await *)
CallFindDeviceInfo(device) ==
    \/ GetAllDevicesCached(1, "findDeviceInfo", FALSE, device)
    \/ GetAllDevicesBegin(1, "findDeviceInfo", FALSE, device)

RunArgs == [listDevices : BOOLEAN, xcodePath : BOOLEAN, skipBuild : BOOLEAN,
            directBundleId : BOOLEAN, streamLogs : BOOLEAN, device : CacheNames]

NewRun(args, pc) == [IdleRun EXCEPT !.pc = pc, !.args = args]

(* RunListDevices with getAllDevices() in place of getAllDevices(true) *)
RunListDevices_Unforced(args) ==
    /\ run.pc \in {"idle", "done"}
    /\ args.listDevices
    /\ \/ GetAllDevicesCached(1, "getAllDevices", FALSE, undefined)
       \/ GetAllDevicesBegin(1, "getAllDevices", FALSE, undefined)
    /\ run' = NewRun(args, "awaitListDevices")
    /\ commands' = <<>>
    /\ UNCHANGED <<bundleIds, toolVars>>

(* stage 0: listDevices: getAllDevices(true) *)
RunListDevices(args) ==
    /\ run.pc \in {"idle", "done"}
    /\ args.listDevices
    /\ GetAllDevicesBegin(1, "getAllDevices", TRUE, undefined)
    /\ run' = NewRun(args, "awaitListDevices")
    /\ commands' = <<>>
    /\ UNCHANGED <<bundleIds, toolVars>>

(* stage 0: the forced cycle returned: format and return the listing *)
RunListDevicesDone ==
    /\ run.pc = "awaitListDevices"
    /\ calls[1].pc = "idle"
    /\ Finish(Listing(LastReturned.result))
    /\ UNCHANGED <<registryVars, commands, bundleIds, toolVars>>

(* stage 1: no xcodePath given: findXcodeInstallations() *)
RunFindInstallations(args) ==
    /\ run.pc \in {"idle", "done"}
    /\ ~args.listDevices
    /\ ~args.xcodePath
    /\ run' = NewRun(args, "awaitInstallations")
    /\ commands' = <<>>
    /\ UNCHANGED <<registryVars, bundleIds, toolVars>>

(* stage 1: findXcodeInstallations() settled (it never rejects); stage 2:
   findDeviceInfo(device) *)
RunInstallationsDone ==
    /\ run.pc = "awaitInstallations"
    /\ CallFindDeviceInfo(run.args.device)
    /\ run' = [run EXCEPT !.pc = "awaitDevice"]
    /\ UNCHANGED <<commands, bundleIds, toolVars>>

(* xcodePath given: stage 2 at once *)
RunFindDevice(args) ==
    /\ run.pc \in {"idle", "done"}
    /\ ~args.listDevices
    /\ args.xcodePath
    /\ CallFindDeviceInfo(args.device)
    /\ run' = NewRun(args, "awaitDevice")
    /\ commands' = <<>>
    /\ UNCHANGED <<bundleIds, toolVars>>

(* Lacks that finds every identifier present *)
Lacks_Never(id) ==
    FALSE

(* !deviceInfo.xcodeId, !deviceInfo.deviceCtlId *)
Lacks(id) ==
    id = undefined

(* stage 2: findDeviceInfo settled; stage 3: directBundleId, or
   getBundleIdentifier up to its first await *)
RunDeviceResolved ==
    /\ run.pc = "awaitDevice"
    /\ calls[1].pc = "idle"
    /\ LET deviceInfo == LastReturned.device
           found == [run EXCEPT !.deviceInfo = deviceInfo]
       IN IF LastReturned.error # "none"
          THEN Finish(Failure("error")) /\ UNCHANGED commands
          ELSE IF Lacks(deviceInfo.xcodeId)
          THEN /\ run' = [found EXCEPT !.pc = "done", !.result = Failure("missingXcodeId")]
               /\ UNCHANGED commands
          ELSE IF Lacks(deviceInfo.deviceCtlId)
          THEN /\ run' = [found EXCEPT !.pc = "done",
                                       !.result = Failure("missingDeviceCtlId")]
               /\ UNCHANGED commands
          ELSE IF run.args.directBundleId
          THEN run' = [found EXCEPT !.pc = "awaitToolPath"] /\ UNCHANGED commands
          ELSE IF bundleIds
          THEN run' = [found EXCEPT !.pc = "awaitCachedBundleId"] /\ UNCHANGED commands
          ELSE /\ run' = [found EXCEPT !.pc = "awaitBundleId"]
               /\ commands' = Issue(commands, "bundleId")
    /\ UNCHANGED <<registryVars, bundleIds, toolVars>>

(* stage 3: getBundleIdentifier returned the cached value; stage 4:
   getDeviceCtlPath(xcodePath) *)
RunCachedBundleId ==
    /\ run.pc = "awaitCachedBundleId"
    /\ run' = [run EXCEPT !.pc = "awaitToolPath"]
    /\ UNCHANGED <<registryVars, commands, bundleIds, toolVars>>

(* stage 3: the settings command of getBundleIdentifier settled *)
RunBundleIdDone(outcome) ==
    /\ run.pc = "awaitBundleId"
    /\ commands' = Settle(commands, outcome)
    /\ IF outcome = "ok"
       THEN run' = [run EXCEPT !.pc = "awaitToolPath"] /\ bundleIds' = TRUE
       ELSE Finish(Failure("error")) /\ UNCHANGED bundleIds
    /\ UNCHANGED <<registryVars, toolVars>>

(* BuildsFirst that ignores both flags *)
BuildsFirst_Always(args) ==
    TRUE

(* BuildsFirst that tests skipBuild only *)
BuildsFirst_SkipBuildOnly(args) ==
    ~args.skipBuild

(* the condition of stages 5 and 6: !skipBuild && !directBundleId *)
BuildsFirst(args) ==
    ~args.skipBuild /\ ~args.directBundleId

(* the bundle identifier of the invocation, given or extracted *)
RunBundleId == <<"b">>

(* the Xcode path of the invocation: given, or the first installation *)
RunXcodePath == "Xcode-beta.app"

(* what getDeviceCtlPath(xcodePath) can settle with: the tool of the Xcode
   path, or one found by the scan of the installations or the default *)
ResolvedPaths == {ToolPath(RunXcodePath), DefaultToolPath}

(* what the getDeviceCtlPath(xcodePath) of launchAppOnDevice can settle with
   after the handler's settled with deviceCtlPath: the tool of the Xcode path
   is cached under it and returned again; any other result was not stored
   under the Xcode path and the resolution runs anew *)
LaunchResolutions(deviceCtlPath) ==
    IF deviceCtlPath = ToolPath(RunXcodePath) THEN {deviceCtlPath} ELSE ResolvedPaths

(* the launch options of the invocation *)
RunEnvVars == ParseEnvironment(<<"k", "=", "v">>)

RunStartStopped == TRUE

RunExtraLaunchArgs == << <<"-", "v">> >>

(* launchAppOnDevice: the text of the launch command *)
LaunchCommand(deviceCtlPath, deviceId, environmentVars, startStopped, additionalArgs, bundleId) ==
    <<"\"">> \o deviceCtlPath \o <<"\"", " device process launch --device ">> \o deviceId
        \o (IF Len(environmentVars) > 0
            THEN <<" --environment-variables \"">>
                     \o SerializeEnvironment(environmentVars) \o <<"\"">>
            ELSE <<>>)
        \o (IF startStopped THEN <<" --start-stopped">> ELSE <<>>)
        \o (IF Len(additionalArgs) > 0 THEN <<" ">> \o Join(additionalArgs, " ") ELSE <<>>)
        \o <<" ">> \o bundleId

(* the handler's catch (launchError): the text of the retry launch command *)
RetryLaunchCmd(deviceCtlPath, deviceCtlId, envVars, startStopped, extraLaunchArgs, bundleId) ==
    <<"\"">> \o deviceCtlPath \o <<"\"", " device process launch --device ">> \o deviceCtlId
        \o (IF Len(envVars) > 0
            THEN <<" --environment-variables \"">> \o SerializeEnvironment(envVars) \o <<"\"">>
            ELSE <<>>)
        \o (IF startStopped THEN <<" --start-stopped">> ELSE <<>>)
        \o (IF Len(extraLaunchArgs) > 0 THEN <<" ">> \o Join(extraLaunchArgs, " ") ELSE <<>>)
        \o <<" ">> \o bundleId

(* stage 4: getDeviceCtlPath settled with deviceCtlPath (it never rejects);
   stage 5: estimate the app path; or stages 5 and 6 skipped, stage 7, and
   stage 8: launchAppOnDevice up to its getDeviceCtlPath *)
RunToolPathDone(deviceCtlPath) ==
    /\ run.pc = "awaitToolPath"
    /\ IF BuildsFirst(run.args)
       THEN /\ run' = [run EXCEPT !.pc = "awaitEstimate", !.deviceCtlPath = deviceCtlPath]
            /\ commands' = Issue(commands, "estimate")
       ELSE /\ run' = [run EXCEPT !.pc = "launch.awaitToolPath",
                                  !.deviceCtlPath = deviceCtlPath]
            /\ UNCHANGED commands
    /\ UNCHANGED <<registryVars, bundleIds, toolVars>>

(* RunEstimateDone where a failed estimate ends the invocation *)
RunEstimateDone_FailureAborts(outcome) ==
    /\ run.pc = "awaitEstimate"
    /\ IF outcome = "ok"
       THEN /\ run' = [run EXCEPT !.pc = "awaitBuild", !.appPath = TRUE]
            /\ commands' = Issue(Settle(commands, outcome), "build")
       ELSE /\ Finish(Failure("error"))
            /\ commands' = Settle(commands, outcome)
    /\ UNCHANGED <<registryVars, bundleIds, toolVars>>

(* stage 5: the CONFIGURATION_BUILD_DIR command settled; stage 6:
   buildAndInstallApp *)
RunEstimateDone(outcome) ==
    /\ run.pc = "awaitEstimate"
    /\ run' = [run EXCEPT !.pc = "awaitBuild", !.appPath = (outcome = "ok")]
    /\ commands' = Issue(Settle(commands, outcome), "build")
    /\ UNCHANGED <<registryVars, bundleIds, toolVars>>

(* RunBuildDone that goes on to the launch whatever the outcome *)
RunBuildDone_IgnoresFailure(outcome) ==
    /\ run.pc = "awaitBuild"
    /\ commands' = Settle(commands, outcome)
    /\ run' = [run EXCEPT !.pc = "launch.awaitToolPath"]
    /\ UNCHANGED <<registryVars, bundleIds, toolVars>>

(* stage 6: the build install command settled; stage 7, and stage 8 up to the
   getDeviceCtlPath of launchAppOnDevice *)
RunBuildDone(outcome) ==
    /\ run.pc = "awaitBuild"
    /\ commands' = Settle(commands, outcome)
    /\ IF outcome = "ok"
       THEN run' = [run EXCEPT !.pc = "launch.awaitToolPath"]
       ELSE Finish(Failure("error"))
    /\ UNCHANGED <<registryVars, bundleIds, toolVars>>

(* launchAppOnDevice: devicectl path resolved, build and issue the launch
   command *)
LaunchToolPathDone(deviceCtlPath) ==
    /\ run.pc = "launch.awaitToolPath"
    /\ LET command == LaunchCommand(deviceCtlPath, run.deviceInfo.deviceCtlId, RunEnvVars,
                                    RunStartStopped, RunExtraLaunchArgs, RunBundleId)
       IN run' = [run EXCEPT !.pc = "launch.awaitLaunch", !.launches = <<command>>]
    /\ commands' = Issue(commands, "launch")
    /\ UNCHANGED <<registryVars, bundleIds, toolVars>>

(* LogStreaming without the streamLogs test *)
LogStreaming_Always ==
    StartDeviceLogStream(run.deviceInfo.deviceCtlId, RunBundleId)

(* stage 9: startDeviceLogStream is called and not awaited when streamLogs *)
LogStreaming ==
    IF run.args.streamLogs
    THEN StartDeviceLogStream(run.deviceInfo.deviceCtlId, RunBundleId)
    ELSE UNCHANGED stream

(* the handler after launchAppOnDevice returned: result text, stage 9 *)
Launched(log) ==
    /\ run' = [run EXCEPT !.pc = "done", !.result = Success("launched"),
                          !.logStream = run.args.streamLogs]
    /\ commands' = log
    /\ LogStreaming

(* HandlerCatchInstalls with the message test dropped *)
HandlerCatchInstalls_AnyError(outcome) ==
    run.appPath

(* the test of the handler's catch (launchError) *)
HandlerCatchInstalls(outcome) ==
    outcome = "notInstalled" /\ run.appPath

(* the handler's catch (launchError): install by hand, or report *)
HandlerCatch(log, outcome) ==
    IF HandlerCatchInstalls(outcome)
    THEN /\ run' = [run EXCEPT !.pc = "retry.awaitInstall"]
         /\ commands' = Issue(log, "install")
    ELSE /\ Finish(Failure("error"))
         /\ commands' = log

(* LaunchCatchInstalls without the appPath test *)
LaunchCatchInstalls_NoPathTest(outcome) ==
    outcome = "notInstalled"

(* the test of the catch (launchError) of launchAppOnDevice *)
LaunchCatchInstalls(outcome) ==
    outcome = "notInstalled" /\ run.appPath

(* launchAppOnDevice: the launch command settled *)
LaunchDone(outcome) ==
    /\ run.pc = "launch.awaitLaunch"
    /\ IF outcome = "ok"
       THEN Launched(Settle(commands, outcome))
       ELSE IF LaunchCatchInstalls(outcome)
       THEN /\ run' = [run EXCEPT !.pc = "launch.install.awaitToolPath"]
            /\ commands' = Settle(commands, outcome)
            /\ UNCHANGED stream
       ELSE HandlerCatch(Settle(commands, outcome), outcome) /\ UNCHANGED stream
    /\ UNCHANGED <<registryVars, bundleIds, exec, xcode, tool, bundle>>

(* installAppOnDevice: devicectl path resolved, issue the install command *)
InstallToolPathDone ==
    /\ run.pc = "launch.install.awaitToolPath"
    /\ run' = [run EXCEPT !.pc = "launch.awaitInstall"]
    /\ commands' = Issue(commands, "install")
    /\ UNCHANGED <<registryVars, bundleIds, toolVars>>

(* installAppOnDevice settled: launchAppOnDevice issues the launch command
   again, or the install error leaves launchAppOnDevice *)
InstallDone(outcome) ==
    /\ run.pc = "launch.awaitInstall"
    /\ IF outcome = "ok"
       THEN /\ run' = [run EXCEPT !.pc = "launch.awaitRelaunch",
                                  !.launches = Append(run.launches, run.launches[1])]
            /\ commands' = Issue(Settle(commands, outcome), "launch")
       ELSE HandlerCatch(Settle(commands, outcome), outcome)
    /\ UNCHANGED <<registryVars, bundleIds, toolVars>>

(* RelaunchDone without the return: the launch error is thrown after all *)
RelaunchDone_NoReturn(outcome) ==
    /\ run.pc = "launch.awaitRelaunch"
    /\ HandlerCatch(Settle(commands, outcome), "notInstalled")
    /\ UNCHANGED <<registryVars, bundleIds, toolVars>>

(* launchAppOnDevice: the second launch command settled *)
RelaunchDone(outcome) ==
    /\ run.pc = "launch.awaitRelaunch"
    /\ IF outcome = "ok"
       THEN Launched(Settle(commands, outcome))
       ELSE HandlerCatch(Settle(commands, outcome), outcome) /\ UNCHANGED stream
    /\ UNCHANGED <<registryVars, bundleIds, exec, xcode, tool, bundle>>

(* the handler's own install command settled: issue the retry launch command,
   or catch (installError) *)
RetryInstallDone(outcome) ==
    /\ run.pc = "retry.awaitInstall"
    /\ IF outcome = "ok"
       THEN /\ LET retryLaunchCmd ==
                        RetryLaunchCmd(run.deviceCtlPath, run.deviceInfo.deviceCtlId,
                                       RunEnvVars, RunStartStopped, RunExtraLaunchArgs,
                                       RunBundleId)
               IN run' = [run EXCEPT !.pc = "retry.awaitLaunch",
                                     !.launches = Append(run.launches, retryLaunchCmd)]
            /\ commands' = Issue(Settle(commands, outcome), "launch")
       ELSE /\ Finish(Failure("installFailed"))
            /\ commands' = Settle(commands, outcome)
    /\ UNCHANGED <<registryVars, bundleIds, toolVars>>

(* the handler's retry launch command settled *)
RetryLaunchDone(outcome) ==
    /\ run.pc = "retry.awaitLaunch"
    /\ commands' = Settle(commands, outcome)
    /\ IF outcome = "ok"
       THEN /\ run' = [run EXCEPT !.pc = "done",
                                  !.result = Success("installedAndLaunched"),
                                  !.logStream = run.args.streamLogs]
            /\ LogStreaming
       ELSE Finish(Failure("installFailed")) /\ UNCHANGED stream
    /\ UNCHANGED <<registryVars, bundleIds, exec, xcode, tool, bundle>>

----------------------------------------------------------------------------
(* SpecRun: run-on-device invocations one after the other, over every outcome
   of every command *)

Invoke ==
    \E args \in RunArgs :
        RunListDevices(args) \/ RunFindInstallations(args) \/ RunFindDevice(args)

Resolve ==
    RunListDevicesDone \/ RunInstallationsDone \/ RunDeviceResolved \/ RunCachedBundleId

Prepare ==
    \/ \E outcome \in {"ok", "noMatch", "error"} : RunBundleIdDone(outcome)
    \/ \E deviceCtlPath \in ResolvedPaths : RunToolPathDone(deviceCtlPath)
    \/ \E outcome \in {"ok", "noMatch", "error"} : RunEstimateDone(outcome)
    \/ \E outcome \in {"ok", "error"} : RunBuildDone(outcome)

Launch ==
    \/ \E deviceCtlPath \in LaunchResolutions(run.deviceCtlPath) :
          LaunchToolPathDone(deviceCtlPath)
    \/ \E outcome \in {"ok"} \cup ErrorOutcomes : LaunchDone(outcome)
    \/ InstallToolPathDone
    \/ \E outcome \in {"ok"} \cup ErrorOutcomes : InstallDone(outcome)
    \/ \E outcome \in {"ok"} \cup ErrorOutcomes : RelaunchDone(outcome)

Retry ==
    \/ \E outcome \in {"ok"} \cup ErrorOutcomes : RetryInstallDone(outcome)
    \/ \E outcome \in {"ok"} \cup ErrorOutcomes : RetryLaunchDone(outcome)

Discover == CallXctrace \/ CallToolPath \/ CallDevicectl

(* the detached log stream runs on after the handler returned *)
RunStreamToolPath ==
    /\ StreamToolPathDone
    /\ UNCHANGED <<registryVars, runVars, exec, xcode, tool, bundle>>

RunStreamView ==
    /\ \E outcome \in ChildOutcomes : StreamViewDone(outcome)
    /\ UNCHANGED <<registryVars, runVars, exec, xcode, tool, bundle>>

LogStream == RunStreamToolPath \/ RunStreamView

NextRun == Invoke \/ Resolve \/ Prepare \/ Launch \/ Retry \/ Discover \/ LogStream

SpecRun == Init /\ [][NextRun]_vars

(* every await of the handler settles: the commands run under a time limit, the
   registry and the path lookups return *)
Progress == Resolve \/ Prepare \/ Launch \/ Retry \/ Discover

SpecRunLive == Init /\ [][NextRun]_vars /\ WF_vars(Progress)

----------------------------------------------------------------------------
(* Claims about the cache, checked under Spec *)

CacheAge(s) == s.now - s.cachedAt

(* C1 as stated: two consecutive getAllDevices(false) calls that start less than
   5 minutes apart return the same list, and the second issues no discovery
   command *)
C1_TwoCallsWithinTimeoutApart ==
    (/\ Len(returned) = 2
     /\ ~returned[1].forceRefresh /\ ~returned[2].forceRefresh
     /\ returned[2].now - returned[1].now < CACHE_TIMEOUT)
    => (returned[2].result = returned[1].result /\ returned[2].cmds = <<>>)

(* C1 as amended: two consecutive getAllDevices(false) calls, the second made
   while the cached list is less than 5 minutes old (its age counted from the
   start of the discovery cycle that produced it), return the same list, and
   the second issues no discovery command *)
C1_SecondCallWithinCacheAge ==
    (/\ Len(returned) = 2
     /\ ~returned[1].forceRefresh /\ ~returned[2].forceRefresh
     /\ returned[2].cachedAt # 0
     /\ CacheAge(returned[2]) < CACHE_TIMEOUT)
    => (returned[2].result = returned[1].result /\ returned[2].cmds = <<>>)

(* C1 witness: a discovery cycle that found a device, then a second call served
   from the cache *)
C1_Witness ==
    /\ Len(returned) = 2
    /\ ~returned[1].forceRefresh /\ ~returned[2].forceRefresh
    /\ ~returned[1].hit /\ returned[2].hit
    /\ returned[2].now > returned[1].now
    /\ returned[2].result # <<>>

(* C2: a getAllDevices(false) call that finds a cached list aged 5 minutes or
   more runs both scans and replaces the cache with its result and start time;
   a call is served from the cache only when the age is below 5 minutes *)
C2_ExpiredCacheRediscovers ==
    \A k \in 1..Len(returned) :
        LET s == returned[k]
        IN ~s.forceRefresh =>
            /\ (s.cachedAt # 0 /\ CacheAge(s) >= CACHE_TIMEOUT) =>
                    /\ ~s.hit
                    /\ s.cmds = <<"xctrace", "devicectl">>
                    /\ k = Len(returned) =>
                            cache = [hasDevicesList |-> TRUE, devicesList |-> s.result,
                                     deviceListTimestamp |-> s.now]
            /\ s.hit => (s.cachedAt # 0 /\ CacheAge(s) < CACHE_TIMEOUT)

(* C2 witness: a cached list of age exactly 5 minutes was replaced by a
   different list *)
C2_Witness ==
    /\ Len(returned) = 2
    /\ ~LastReturned.forceRefresh
    /\ LastReturned.cachedAt # 0
    /\ CacheAge(LastReturned) = CACHE_TIMEOUT
    /\ ~LastReturned.hit
    /\ LastReturned.result # returned[1].result
    /\ cache.devicesList = LastReturned.result

----------------------------------------------------------------------------
(* SpecMerge: one discovery cycle over every output of the two sources of up to
   MaxRows usable lines each, then one lookup in the cached list *)

Queries == Strings

MergeXctraceOutputs == XctraceOutputs(Strings, Ids, MaxRows)

MergeDevicectlOutputs == DevicectlOutputs(Strings, Ids, MaxRows)

MergeBegin ==
    /\ GetAllDevicesBegin(1, "getAllDevices", FALSE, undefined)
    /\ UNCHANGED <<runVars, toolVars>>

MergeXctrace ==
    /\ \E out \in MergeXctraceOutputs : XctraceDone(1, out)
    /\ UNCHANGED <<runVars, toolVars>>

MergeToolPath ==
    /\ ToolPathDone(1)
    /\ UNCHANGED <<runVars, toolVars>>

MergeDevicectl ==
    /\ \E out \in MergeDevicectlOutputs : DevicectlDone(1, out)
    /\ UNCHANGED <<runVars, toolVars>>

MergeFind ==
    /\ Len(returned) = 1
    /\ \E q \in Queries : GetAllDevicesCached(1, "findDeviceInfo", FALSE, q)
    /\ UNCHANGED <<runVars, toolVars>>

NextMerge == MergeBegin \/ MergeXctrace \/ MergeToolPath \/ MergeDevicectl \/ MergeFind

SpecMerge == Init /\ [][NextMerge]_vars

----------------------------------------------------------------------------
(* Claims about the merge of the two scans, checked under SpecMerge *)

CycleDone == cache.hasDevicesList

Reported(lines, name) == \E k \in 1..Len(lines) : lines[k].name = name

Named(devices, name) == {i \in 1..Len(devices) : devices[i].name = name}

(* one name contains the other, or they are equal *)
Related(x, y) == Includes(x, y) \/ Includes(y, x)

(* C3 as stated: when both sources report a device named N, the resulting list
   has exactly one record named N and that record has both identifiers *)
C3_SameNameOneRecordBothIds ==
    (CycleDone /\ scanned[1].xctrace.ok /\ scanned[1].devicectl.ok) =>
        \A n \in Strings :
            (Reported(scanned[1].xctrace.lines, n) /\ Reported(scanned[1].devicectl.lines, n))
            => /\ Cardinality(Named(cache.devicesList, n)) = 1
               /\ \A i \in Named(cache.devicesList, n) :
                      /\ cache.devicesList[i].xcodeId # undefined
                      /\ cache.devicesList[i].deviceCtlId # undefined

(* C4: a devicectl row whose name is in a containment relation with the name of
   an existing record is merged into such a record and the list does not grow;
   a row related to no record is appended as a new record *)
C4_RelatedRowMergesElseAppends ==
    (CycleDone /\ scanned[1].devicectl.ok) =>
        LET lines == scanned[1].devicectl.lines
            trace == scanned[1].trace
        IN /\ Len(trace) = Len(lines) + 1
           /\ trace[Len(trace)] = cache.devicesList
           /\ \A k \in 1..Len(lines) :
                 LET before == trace[k]
                     after == trace[k + 1]
                     related == {i \in 1..Len(before) : Related(before[i].name, lines[k].name)}
                 IN IF related # {}
                    THEN /\ Len(after) = Len(before)
                         /\ \E i \in related :
                               /\ after[i] = [before[i] EXCEPT
                                                 !.deviceCtlId = lines[k].deviceCtlId]
                               /\ \A j \in 1..Len(before) : j # i => after[j] = before[j]
                    ELSE after = Append(before, [name |-> lines[k].name,
                                                 xcodeId |-> undefined,
                                                 deviceCtlId |-> lines[k].deviceCtlId])

(* C4 witness: one row merged into a record whose name it strictly contains,
   the next row, related to no record, was appended *)
C4_Witness ==
    /\ CycleDone /\ scanned[1].devicectl.ok
    /\ Len(scanned[1].devicectl.lines) = 2
    /\ LET lines == scanned[1].devicectl.lines
           trace == scanned[1].trace
       IN /\ Len(trace[1]) = 1
          /\ trace[1][1].name # lines[1].name
          /\ Includes(lines[1].name, trace[1][1].name)
          /\ Len(trace[2]) = 1
          /\ trace[2][1].deviceCtlId = lines[1].deviceCtlId
          /\ Len(trace[3]) = 2
          /\ trace[3][2].name = lines[2].name

(* C17: a cycle whose xctrace command failed still runs the devicectl scan and
   its list holds the devicectl rows; a cycle whose devicectl command failed
   returns the records of the xctrace scan; the cycle returns a list in either
   case *)
C17_EitherScanFailureTolerated ==
    CycleDone =>
        LET devices == cache.devicesList
            xlines == scanned[1].xctrace.lines
            dlines == scanned[1].devicectl.lines
        IN /\ returned[1].error = "none"
           /\ returned[1].result = devices
           /\ returned[1].cmds = <<"xctrace", "devicectl">>
           /\ (~scanned[1].xctrace.ok /\ scanned[1].devicectl.ok) =>
                 /\ (devices = <<>>) <=> (dlines = <<>>)
                 /\ \A k \in 1..Len(dlines) :
                       \E i \in 1..Len(devices) :
                           /\ Related(devices[i].name, dlines[k].name)
                           /\ devices[i].deviceCtlId # undefined
                 /\ \A i \in 1..Len(devices) :
                       /\ devices[i].xcodeId = undefined
                       /\ \E k \in 1..Len(dlines) :
                             /\ devices[i].name = dlines[k].name
                             /\ devices[i].deviceCtlId \in
                                   {dlines[j].deviceCtlId : j \in 1..Len(dlines)}
           /\ (scanned[1].xctrace.ok /\ ~scanned[1].devicectl.ok) =>
                 /\ Len(devices) = Cardinality({xlines[k].name : k \in 1..Len(xlines)})
                 /\ \A k \in 1..Len(xlines) :
                       \E i \in 1..Len(devices) :
                           /\ devices[i].name = xlines[k].name
                           /\ devices[i].xcodeId # undefined
                 /\ \A i \in 1..Len(devices) : devices[i].deviceCtlId = undefined

(* C17 witness: the xctrace command failed and the list holds two records of
   the devicectl scan *)
C17_Witness ==
    /\ CycleDone
    /\ ~scanned[1].xctrace.ok
    /\ scanned[1].devicectl.ok
    /\ Len(cache.devicesList) = 2
    /\ cache.devicesList[2].deviceCtlId # undefined

----------------------------------------------------------------------------
(* Claims about findDeviceInfo, checked under SpecMerge on the lists a
   discovery cycle produces *)

Looked == returned # <<>> /\ LastReturned.op = "findDeviceInfo"

XcodeIdIs(devices, q) == {i \in 1..Len(devices) : devices[i].xcodeId = q}

AnyIdIs(devices, q) ==
    {i \in 1..Len(devices) : devices[i].xcodeId = q \/ devices[i].deviceCtlId = q}

Min(S) == CHOOSE i \in S : \A j \in S : i <= j

(* C5: when some record's Xcode identifier equals q, findDeviceInfo(q) returns
   a record one of whose identifiers equals q, whatever the names of the
   records before it *)
C5_IdentifierBeatsName ==
    (Looked /\ XcodeIdIs(LastReturned.result, LastReturned.query) # {}) =>
        /\ LastReturned.error = "none"
        /\ \/ LastReturned.device.xcodeId = LastReturned.query
           \/ LastReturned.device.deviceCtlId = LastReturned.query

(* C5 witness: the record returned has Xcode identifier q and stands after a
   record that matches q by name only *)
C5_Witness ==
    /\ Looked
    /\ LastReturned.device.xcodeId = LastReturned.query
    /\ \E i \in 1..Len(LastReturned.result) :
          /\ i < Min(AnyIdIs(LastReturned.result, LastReturned.query))
          /\ Related(LastReturned.result[i].name, LastReturned.query)

(* C6 as stated: when q equals no identifier and some record is named exactly
   q, findDeviceInfo(q) returns a record named exactly q *)
C6_ExactNameBeatsSubstring ==
    (/\ Looked
     /\ AnyIdIs(LastReturned.result, LastReturned.query) = {}
     /\ Named(LastReturned.result, LastReturned.query) # {})
    => (LastReturned.error = "none" /\ LastReturned.device.name = LastReturned.query)

----------------------------------------------------------------------------
(* Claims about the launch stage of run-on-device, checked under SpecRun *)

Issued(cmd) == {k \in 1..Len(commands) : commands[k].cmd = cmd}

FirstLaunchOutcome ==
    IF Issued("launch") = {} THEN "none" ELSE commands[Min(Issued("launch"))].outcome

(* the first launch failed as not installed with an app path estimated, and
   every install and every later launch succeeded *)
RetrySucceeded ==
    /\ run.pc = "done"
    /\ run.appPath
    /\ FirstLaunchOutcome = "notInstalled"
    /\ \A k \in Issued("install") : commands[k].outcome = "ok"
    /\ \A k \in Issued("launch") : k # Min(Issued("launch")) => commands[k].outcome = "ok"

(* C8: when the first launch fails as not installed, an app path was estimated,
   the install succeeds and the re-launch succeeds, exactly one install and
   exactly one re-launch were issued and the result has no error flag *)
C8_RetryOnceThenSuccess ==
    RetrySucceeded =>
        /\ Cardinality(Issued("install")) = 1
        /\ Cardinality(Issued("launch")) = 2
        /\ ~run.result.isError

(* C8 witness: launch (not installed), install (ok), launch (ok), success *)
C8_Witness ==
    /\ RetrySucceeded
    /\ Len(commands) >= 3
    /\ commands[Len(commands) - 2] = [cmd |-> "launch", outcome |-> "notInstalled"]
    /\ commands[Len(commands) - 1] = [cmd |-> "install", outcome |-> "ok"]
    /\ commands[Len(commands)] = [cmd |-> "launch", outcome |-> "ok"]
    /\ run.result = Success("launched")

(* C9 as stated: an invocation issues at most one install command and at most
   two launch commands, and a re-launch that fails as not installed ends the
   invocation with an error result and no further command *)
C9_AtMostOneInstallTwoLaunches ==
    /\ Cardinality(Issued("install")) <= 1
    /\ Cardinality(Issued("launch")) <= 2
    /\ \A k \in Issued("launch") :
          (k # Min(Issued("launch")) /\ commands[k].outcome = "notInstalled")
          => (run.pc = "done" /\ run.result.isError /\ Len(commands) = k)

(* C10: when the launch command fails with an error that is not of the
   not-installed class, exactly one launch command and no install command were
   issued, and the invocation has ended with the error flag set *)
C10_OtherLaunchErrorNoRetry ==
    FirstLaunchOutcome = "error" =>
        /\ Cardinality(Issued("launch")) = 1
        /\ Issued("install") = {}
        /\ run.pc = "done"
        /\ run.result.isError

(* C10 witness: the launch failed with another error although an app path was
   estimated, and the invocation ended in error *)
C10_Witness ==
    /\ FirstLaunchOutcome = "error"
    /\ run.appPath
    /\ run.pc = "done"
    /\ run.result = Failure("error")
    /\ commands[Len(commands)].cmd = "launch"

----------------------------------------------------------------------------
(* Claims about the stages of run-on-device, checked under SpecRun *)

LastCommand == commands[Len(commands)]

LaunchSucceeded ==
    commands # <<>> /\ LastCommand = [cmd |-> "launch", outcome |-> "ok"]

(* C13: with skipBuild and directBundleId, no settings dump, no build-directory
   estimate, no build and no devicectl install is issued before the first
   launch command *)
C13_DirectLaunchNoBuildNoInstall ==
    (run.pc # "idle" /\ run.args.skipBuild /\ run.args.directBundleId) =>
        \A k \in 1..Len(commands) :
            commands[k].cmd \in {"bundleId", "estimate", "build", "install"}
            => (Issued("launch") # {} /\ Min(Issued("launch")) < k)

(* C13 witness: the invocation resolved the device and went straight to a
   launch that succeeded *)
C13_Witness ==
    /\ run.pc = "done"
    /\ run.args.skipBuild /\ run.args.directBundleId
    /\ run.result = Success("launched")
    /\ commands = <<[cmd |-> "launch", outcome |-> "ok"]>>

Resolved == run.deviceInfo.name # undefined

(* C14: when the resolved record lacks the Xcode identifier or the devicectl
   identifier, the invocation has ended with an error result naming that
   identifier and has issued no command and no log stream, whatever skipBuild
   and directBundleId are *)
C14_IncompleteIdentityStops ==
    /\ (Resolved /\ run.deviceInfo.xcodeId = undefined) =>
          /\ run.pc = "done"
          /\ run.result = [isError |-> TRUE, text |-> "missingXcodeId"]
          /\ commands = <<>>
          /\ ~run.logStream
    /\ (Resolved /\ run.deviceInfo.xcodeId # undefined
                 /\ run.deviceInfo.deviceCtlId = undefined) =>
          /\ run.pc = "done"
          /\ run.result = [isError |-> TRUE, text |-> "missingDeviceCtlId"]
          /\ commands = <<>>
          /\ ~run.logStream

(* C14 witness: a record known to xctrace only, with skipBuild, directBundleId
   and streamLogs given *)
C14_Witness ==
    /\ run.pc = "done"
    /\ Resolved
    /\ run.deviceInfo.xcodeId # undefined
    /\ run.deviceInfo.deviceCtlId = undefined
    /\ run.args.skipBuild /\ run.args.directBundleId /\ run.args.streamLogs
    /\ run.result.text = "missingDeviceCtlId"

(* C15: with listDevices the invocation runs a discovery cycle whatever the age
   of the cache, returns a listing with one entry per record of that cycle, and
   runs no other stage: no device resolution, no command, no log stream *)
C15_ListDevicesForcesCycleAndStops ==
    run.args.listDevices =>
        /\ run.pc \in {"awaitListDevices", "done"}
        /\ commands = <<>>
        /\ ~run.logStream
        /\ run.pc = "done" =>
              /\ LastReturned.op = "getAllDevices"
              /\ LastReturned.forceRefresh
              /\ ~LastReturned.hit
              /\ LastReturned.cmds = <<"xctrace", "devicectl">>
              /\ LastReturned.result = scanned[1].trace[Len(scanned[1].trace)]
              /\ ~run.result.isError
              /\ run.result.text = "deviceList"
              /\ Len(run.result.lines) = Len(LastReturned.result)
              /\ \A i \in 1..Len(LastReturned.result) :
                    run.result.lines[i][1] = LastReturned.result[i].name

(* C15 witness: the cache was younger than 5 minutes, and the listing shows a
   list that differs from the cached one *)
C15_Witness ==
    /\ run.args.listDevices
    /\ run.pc = "done"
    /\ Len(returned) = 2
    /\ LastReturned.cachedAt # 0
    /\ CacheAge(LastReturned) < CACHE_TIMEOUT
    /\ LastReturned.result # returned[1].result
    /\ run.result.lines # <<>>

InFlight == run.pc \notin {"idle", "done"}

(* the envelope of an ended invocation: one text block, and the error flag is
   absent exactly when the listing was returned or the last launch succeeded *)
EnvelopeOk ==
    run.pc = "done" =>
        /\ run.result.text # "none"
        /\ run.result.isError \in BOOLEAN
        /\ ~run.result.isError <=> (run.args.listDevices \/ LaunchSucceeded)

(* C16: every invocation ends by returning a result envelope; the envelope has
   the error flag set after a failure at any stage, and has no error flag
   exactly when the launch or re-launch succeeded or the listing was returned *)
C16_AlwaysReturnsEnvelope ==
    /\ []EnvelopeOk
    /\ InFlight ~> (run.pc = "done")

(* C16 witness: the on-demand install failed, and the invocation returned the
   error envelope *)
C16_Witness ==
    /\ run.pc = "done"
    /\ run.result = [isError |-> TRUE, text |-> "installFailed"]
    /\ LastCommand.cmd = "install"
    /\ LastCommand.outcome = "error"

(* C18: a log stream is started only in the step in which the handler returns
   the success result of a launch or re-launch, with streamLogs given; the
   steps of the log stream, whatever its outcome, leave the invocation and its
   result as they are *)
C18_LogStreamDetached ==
    [][/\ (stream' # stream /\ stream'.pc = "awaitToolPath") =>
              /\ run.pc # "done"
              /\ run'.pc = "done"
              /\ run'.args.streamLogs
              /\ ~run'.result.isError
              /\ commands' # <<>>
              /\ commands'[Len(commands')] = [cmd |-> "launch", outcome |-> "ok"]
       /\ (stream' # stream /\ stream'.pc \in {"awaitView", "settled"}) =>
              /\ run' = run
              /\ commands' = commands]_vars

(* C18 witness: the handler has returned the launch result while the view
   command of its log stream is in flight *)
C18_Witness ==
    /\ run.pc = "done"
    /\ run.logStream
    /\ run.result = Success("launched")
    /\ stream.pc = "awaitView"

(* the on-demand install ran and the launch after it succeeded *)
RetryPathTaken ==
    /\ run.pc = "done"
    /\ Len(commands) >= 2
    /\ commands[Len(commands) - 1] = [cmd |-> "install", outcome |-> "ok"]
    /\ LaunchSucceeded

(* C19 as stated: whenever the on-demand install ran and the launch after it
   succeeded, the result text is the one that carries the install output *)
C19_RetryResultIncludesInstallOutput ==
    RetryPathTaken => run.result.text = "installedAndLaunched"

----------------------------------------------------------------------------
(* SpecExec: executeCommand called with every command of up to MaxTokens
   tokens, directly or by startDeviceLogStream, one call at a time *)

Tokens == {<<"r", "m">>, <<" ">>, <<"-", "r", "f">>, <<"/">>,
           <<"m", "k", "f", "s">>, <<"d", "d">>, <<"i", "f">>}

(* commands whose white space is a tab *)
TabCommands == {<<"r", "m", "\t", "-", "r", "f", " ", "/">>,
                <<"r", "m", "\t", "-", "r", "f", "/">>,
                <<"d", "d", "\t", "i", "f">>,
                <<"d", "d", "\t", "/">>}

RECURSIVE Flatten(_)
Flatten(ts) == IF ts = <<>> THEN <<>> ELSE Head(ts) \o Flatten(Tail(ts))

Commands == {Flatten(ts) : ts \in SeqsUpTo(Tokens, MaxTokens)} \cup TabCommands

StreamDeviceIds == {<<"a">>}

StreamBundleIds == {<<"b">>, <<"m", "k", "f", "s">>, <<"d", "d", " ", "i", "f">>}

(* `"${deviceCtlPath}" device process view --device ${deviceId} --console
   ${bundleId}`; the fixed words are shortened to "view" *)
ViewCommand(deviceId, bundleId) ==
    <<"v", "i", "e", "w", " ">> \o deviceId \o <<" ">> \o bundleId

ExecDirect ==
    /\ stream.pc = "idle"
    /\ exec.pc = "idle"
    /\ \E command \in Commands : ExecuteCommand("direct", command)
    /\ UNCHANGED <<registryVars, runVars, stream, xcode, tool, bundle>>

ExecChild ==
    /\ \E outcome \in ChildOutcomes : ExecSettled(outcome)
    /\ UNCHANGED <<registryVars, runVars, stream, xcode, tool, bundle>>

(* the caller of executeCommand resumed with the output or the error *)
ExecReturned ==
    /\ exec.pc = "settled"
    /\ exec.caller = "direct"
    /\ exec' = IdleExec
    /\ UNCHANGED <<registryVars, runVars, stream, xcode, tool, bundle>>

(* the caller of startDeviceLogStream resumed *)
ExecStreamReturned ==
    /\ stream.pc = "settled"
    /\ stream' = IdleStream
    /\ UNCHANGED <<registryVars, runVars, exec, xcode, tool, bundle>>

ExecStreamStart ==
    /\ stream.pc = "idle"
    /\ exec.pc = "idle"
    /\ \E deviceId \in StreamDeviceIds, bundleId \in StreamBundleIds :
          StartDeviceLogStream(deviceId, bundleId)
    /\ UNCHANGED <<registryVars, runVars, exec, xcode, tool, bundle>>

ExecStreamToolPath ==
    /\ StreamToolPathDone
    /\ ExecuteCommand("stream", ViewCommand(stream.deviceId, stream.bundleId))
    /\ UNCHANGED <<registryVars, runVars, xcode, tool, bundle>>

ExecStreamView ==
    /\ exec.pc = "settled"
    /\ exec.caller = "stream"
    /\ StreamViewDone(exec.outcome)
    /\ exec' = IdleExec
    /\ UNCHANGED <<registryVars, runVars, xcode, tool, bundle>>

NextExec ==
    \/ ExecDirect \/ ExecChild \/ ExecReturned
    \/ ExecStreamStart \/ ExecStreamToolPath \/ ExecStreamView \/ ExecStreamReturned

SpecExec == Init /\ [][NextExec]_vars

----------------------------------------------------------------------------
(* Claims about executeCommand and startDeviceLogStream, checked under SpecExec *)

Called == exec.pc # "idle"

Rejected ==
    exec.pc = "settled" /\ exec.outcome = "SecurityViolation" /\ ~exec.spawned

(* C11: every command that matches the denylist, in particular every command
   that contains 'rm -rf /', 'mkfs' or 'dd if', is rejected with an error and
   no child process is spawned for it; a child process is spawned only for a
   command that passed the test *)
C11_DenylistedNeverSpawned ==
    Called =>
        /\ Denylisted(exec.command) => Rejected
        /\ (\/ Includes(exec.command, <<"r", "m", " ", "-", "r", "f", " ", "/">>)
            \/ Includes(exec.command, <<"m", "k", "f", "s">>)
            \/ Includes(exec.command, <<"d", "d", " ", "i", "f">>)) => Rejected
        /\ exec.spawned => ~Denylisted(exec.command)

(* C11 witness: a recursive root deletion written with a tab and a space was
   rejected without a child process *)
C11_Witness ==
    /\ Rejected
    /\ exec.caller = "direct"
    /\ exec.command = <<"r", "m", "\t", "-", "r", "f", " ", "/">>

(* C12: startDeviceLogStream never rejects: every call that has ended, ended
   with a normal return *)
C12_LogStreamNeverRejects ==
    /\ stream.settled # "rejected"
    /\ stream.pc = "settled" => stream.settled = "resolved"

(* C12 witness: the view command was rejected by the denylist and the call
   returned normally *)
C12_Witness ==
    /\ stream.pc = "settled"
    /\ stream.settled = "resolved"
    /\ stream.path = "errorLogged"
    /\ stream.view = "SecurityViolation"
    /\ stream.bundleId = <<"m", "k", "f", "s">>

----------------------------------------------------------------------------
(* SpecXcode: findXcodeInstallations called by two callers in any interleaving,
   over every outcome of its commands *)

XcodeCall ==
    /\ \E c \in Callers : FindXcodeInstallationsCached(c) \/ FindXcodeInstallationsBegin(c)
    /\ UNCHANGED <<registryVars, runVars, exec, stream, tool, bundle>>

XcodeLs ==
    /\ \E c \in Callers, out \in LsOutputs : LsDone(c, out)
    /\ UNCHANGED <<registryVars, runVars, exec, stream, tool, bundle>>

XcodeVersion ==
    /\ \E c \in Callers, ok \in BOOLEAN : VersionDone(c, ok)
    /\ UNCHANGED <<registryVars, runVars, exec, stream, tool, bundle>>

XcodeBuild ==
    /\ \E c \in Callers, ok \in BOOLEAN : BuildDone(c, ok)
    /\ UNCHANGED <<registryVars, runVars, exec, stream, tool, bundle>>

NextXcode == XcodeCall \/ XcodeLs \/ XcodeVersion \/ XcodeBuild

SpecXcode == Init /\ [][NextXcode]_vars

----------------------------------------------------------------------------
(* Claims about findXcodeInstallations, checked under SpecXcode *)

(* a call returned in this step *)
LookupReturns == xcode'.returned # xcode.returned

(* a call that started with nothing cached issued the ls command; a call whose
   enumeration failed returned the default and left the cache as it was *)
FailureMemoizesNothing ==
    /\ (LookupReturns /\ ~xcode'.returned.hit) => xcode'.returned.cmds >= 1
    /\ (LookupReturns /\ xcode'.returned.failed) =>
          /\ xcode'.hasInstallations = xcode.hasInstallations
          /\ xcode'.installations = xcode.installations
          /\ xcode'.returned.result = DefaultInstallations

(* C20 as stated: every call that starts after the first successful enumeration
   has stored its list issues no command and returns that list; a failed
   enumeration stores nothing *)
C20_LaterCallsReturnFirstList ==
    [][/\ (LookupReturns /\ xcode'.returned.afterFirst) =>
              /\ xcode'.returned.cmds = 0
              /\ xcode'.returned.result = xcode.first.installations
       /\ FailureMemoizesNothing]_vars

(* C21: every call returns at least one installation: the stored list on a hit,
   the single default one when the enumeration failed, and otherwise one
   installation per enumerated path, in order, where a path whose version or
   build-number read failed has version 'unknown' and no build number *)
C21_NeverEmptyUnknownOnFailedRead ==
    /\ xcode.hasInstallations => Len(xcode.installations) >= 1
    /\ xcode.returned.caller # 0 =>
          LET r == xcode.returned
          IN /\ Len(r.result) >= 1
             /\ r.failed => /\ Len(r.result) = 1
                            /\ r.result[1].version = "unknown"
                            /\ r.result[1].buildNumber = "undefined"
             /\ (~r.hit /\ ~r.failed) =>
                   /\ Len(r.result) = Len(r.paths)
                   /\ Len(r.reads) = Len(r.paths)
                   /\ \A i \in 1..Len(r.paths) :
                         /\ r.result[i].path = r.paths[i]
                         /\ r.reads[i] # "ok" =>
                               /\ r.result[i].version = "unknown"
                               /\ r.result[i].buildNumber = "undefined"
                         /\ r.reads[i] = "ok" =>
                               /\ r.result[i].version = "version"
                               /\ r.result[i].buildNumber = "build"

(* C21 witness: a call returned two installations, the build-number read of
   the first and the version read of the second having failed *)
C21_Witness ==
    /\ xcode.returned.caller # 0
    /\ xcode.returned.reads = <<"buildFailed", "versionFailed">>
    /\ Len(xcode.returned.result) = 2

----------------------------------------------------------------------------
(* SpecToolPath: getDeviceCtlPath called again and again, one call at a time,
   with and without an installation path, over every outcome of the
   executable checks and of the installation lookup *)

ToolCall ==
    /\ \E xcodePath \in ToolKeys \cup {NoPath} : GetDeviceCtlPath(xcodePath)
    /\ UNCHANGED <<registryVars, runVars, exec, stream, bundle>>

ToolAccess ==
    /\ \E ok \in BOOLEAN : AccessDone(ok)
    /\ UNCHANGED <<registryVars, runVars, exec, stream, bundle>>

ToolInstallations ==
    /\ InstallationsDone
    /\ UNCHANGED <<registryVars, runVars, exec, stream, bundle>>

ToolLoopAccess ==
    /\ \E ok \in BOOLEAN : LoopAccessDone(ok)
    /\ UNCHANGED <<registryVars, runVars, exec, stream, bundle>>

NextToolPath ==
    \/ ToolCall \/ ToolAccess \/ ToolInstallations \/ ToolLoopAccess
    \/ XcodeLs \/ XcodeVersion \/ XcodeBuild

SpecToolPath == Init /\ [][NextToolPath]_vars

----------------------------------------------------------------------------
(* Claims about getDeviceCtlPath, checked under SpecToolPath *)

(* C22: every call returns a path. A call that did not return the verified
   tool path of the given installation (none given, or its check failed) looked
   the installations up, checked them in discovery order up to the first whose
   tool verified, and returned that tool path; when none verified it returned
   the default path *)
C22_FirstVerifiedElseDefault ==
    LET r == tool.returned
        n == Len(r.checks)
    IN r.called =>
          /\ r.result # NoToolPath
          /\ (r.xcodePath = NoPath) = (r.given = "none" /\ ~r.hit)
          /\ r.given = "ok" => r.result = ToolPath(r.xcodePath) /\ ~r.enumerated
          /\ (~r.hit /\ r.given # "ok") =>
                /\ r.enumerated
                /\ tool.call.pc = "idle" => r.installations = xcode.returned.result
                /\ n <= Len(r.installations)
                /\ \A i \in 1..n : r.checks[i].path = r.installations[i].path
                /\ \A i \in 1..(n - 1) : ~r.checks[i].ok
                /\ IF n > 0 /\ r.checks[n].ok
                   THEN r.result = ToolPath(r.installations[n].path)
                   ELSE /\ n = Len(r.installations)
                        /\ r.result = DefaultToolPath

(* C22 witness: the given installation's tool did not verify, two installations
   were found, the first did not verify and the second did *)
C22_Witness ==
    /\ tool.returned.called
    /\ tool.returned.given = "failed"
    /\ Len(tool.returned.checks) = 2
    /\ tool.returned.checks[2].ok
    /\ tool.returned.result = ToolPath("Xcode.app")

(* a getDeviceCtlPath call with installation path k starts in this step *)
ToolCallStarts(k) ==
    /\ tool.call.pc = "idle"
    /\ \/ tool'.call.pc # "idle" /\ tool'.call.xcodePath = k
       \/ tool'.returned.flip # tool.returned.flip /\ tool'.returned.xcodePath = k

(* C23: a call with an installation path that has a cached entry returns the
   cached tool path in the same step: no executable check, no installation
   lookup, no change of the cache, whatever the latest check of that file said *)
C23_CachedPathReturnedUnchecked ==
    [][\A k \in ToolKeys :
          (ToolCallStarts(k) /\ tool.deviceCtlPaths[k] # NoToolPath) =>
              /\ tool'.call.pc = "idle"
              /\ tool'.returned.hit
              /\ tool'.returned.result = tool.deviceCtlPaths[k]
              /\ tool'.returned.checks = <<>>
              /\ ~tool'.returned.enumerated
              /\ tool'.deviceCtlPaths = tool.deviceCtlPaths
              /\ tool'.observed = tool.observed
              /\ xcode' = xcode]_vars

(* C23 witness: a call returned the cached tool path of an installation whose
   tool failed its latest executable check *)
C23_Witness ==
    /\ tool.returned.called
    /\ tool.returned.hit
    /\ tool.returned.xcodePath = "Xcode.app"
    /\ tool.observed["Xcode.app"] = "failed"
    /\ tool.returned.result = ToolPath("Xcode.app")

----------------------------------------------------------------------------
(* SpecBundle: getBundleIdentifier called again and again, one call at a time,
   over project paths and schemes and every output of the settings command *)

BundleCall ==
    /\ \E pair \in BundlePairs : GetBundleIdentifier(pair[1], pair[2])
    /\ UNCHANGED <<registryVars, runVars, exec, stream, xcode, tool>>

BundleSettings ==
    /\ \E out \in SettingsResults : SettingsDone(out)
    /\ UNCHANGED <<registryVars, runVars, exec, stream, xcode, tool>>

NextBundle == BundleCall \/ BundleSettings

SpecBundle == Init /\ [][NextBundle]_vars

----------------------------------------------------------------------------
(* Claims about getBundleIdentifier, checked under SpecBundle *)

(* C24 as stated: a call returns a cached value without running the settings
   command only if an earlier call with exactly the same project path and
   scheme succeeded, and no cache entry is shared by two distinct pairs *)
C24_PairsNeverShareAnEntry ==
    /\ bundle.returned.hit =>
          <<bundle.returned.projectPath, bundle.returned.scheme>> \in bundle.succeeded
    /\ \A k \in BundleKeys : Cardinality(bundle.entries[k]) <= 1

(* a getBundleIdentifier call returns in this step *)
BundleReturns == bundle'.returned.flip # bundle.returned.flip

(* a getBundleIdentifier call with this pair starts in this step *)
BundleCallStarts(pair) ==
    /\ bundle.call.pc = "idle"
    /\ \/ /\ bundle'.call.pc = "awaitSettings"
          /\ <<bundle'.call.projectPath, bundle'.call.scheme>> = pair
       \/ /\ BundleReturns
          /\ <<bundle'.returned.projectPath, bundle'.returned.scheme>> = pair

(* the latest completed call had this pair *)
SamePairAsLast(pair) ==
    /\ bundle.returned.called
    /\ <<bundle.returned.projectPath, bundle.returned.scheme>> = pair

(* C30 as stated: a call that fails leaves the bundle cache unchanged, and the
   next call with the same pair runs the settings command again; a call that
   succeeds stores its value before returning, and the next call with the same
   pair issues no command and returns that value *)
C30_FailureStoresNothingSuccessStores ==
    [][/\ (BundleReturns /\ bundle'.returned.threw) =>
              bundle'.bundleIds = bundle.bundleIds
       /\ (BundleReturns /\ ~bundle'.returned.threw /\ ~bundle'.returned.hit) =>
              bundle'.bundleIds[CacheKey(bundle'.returned.projectPath,
                                         bundle'.returned.scheme)] = bundle'.returned.value
       /\ \A pair \in BundlePairs :
              (BundleCallStarts(pair) /\ SamePairAsLast(pair)) =>
                  IF bundle.returned.threw
                  THEN bundle'.call.pc = "awaitSettings"
                  ELSE /\ bundle'.call.pc = "idle"
                       /\ bundle'.returned.hit
                       /\ bundle'.returned.issued = 0
                       /\ bundle'.returned.value = bundle.returned.value]_vars

----------------------------------------------------------------------------
(* SpecCycles: getAllDevices called by two callers in any interleaving, so
   that discovery cycles overlap, while time passes *)

(* the last instant of SpecCycles *)
MaxCycleTime == 2

CycleTick ==
    /\ now < MaxCycleTime
    /\ Tick

CycleCached ==
    /\ \E c \in Callers, f \in BOOLEAN : GetAllDevicesCached(c, "getAllDevices", f, undefined)
    /\ UNCHANGED <<runVars, toolVars>>

CycleBegin ==
    /\ \E c \in Callers, f \in BOOLEAN : GetAllDevicesBegin(c, "getAllDevices", f, undefined)
    /\ UNCHANGED <<runVars, toolVars>>

CycleXctrace ==
    /\ \E c \in Callers, out \in CacheXctraceOutputs : XctraceDone(c, out)
    /\ UNCHANGED <<runVars, toolVars>>

CycleToolPath ==
    /\ \E c \in Callers : ToolPathDone(c)
    /\ UNCHANGED <<runVars, toolVars>>

CycleDevicectl ==
    /\ \E c \in Callers, out \in CacheDevicectlOutputs : DevicectlDone(c, out)
    /\ UNCHANGED <<runVars, toolVars>>

NextCycles ==
    CycleTick \/ CycleCached \/ CycleBegin \/ CycleXctrace \/ CycleToolPath \/ CycleDevicectl

SpecCycles == Init /\ [][NextCycles]_vars

----------------------------------------------------------------------------
(* Claims about the device list cache, checked under SpecCycles *)

(* caller c commits its cycle in this step *)
Commits(c) ==
    /\ calls[c].pc = "devicectl"
    /\ calls'[c].pc = "idle"

(* C25: the cache changes only in the step that ends a discovery cycle, and
   that step writes both the list the cycle returns and the timestamp the
   cycle read at its start; no other step of a cycle and no hit changes the
   cache, so the cached list and timestamp always come from one cycle *)
C25_CacheWrittenOnlyByCommit ==
    [][/\ cache' # cache =>
              \E c \in Callers :
                  /\ Commits(c)
                  /\ cache'.hasDevicesList
                  /\ cache'.devicesList = returned'[Len(returned')].result
                  /\ ~returned'[Len(returned')].hit
                  /\ cache'.deviceListTimestamp = calls[c].now
       /\ (\A c \in Callers : ~Commits(c)) => cache' = cache
       /\ (returned' # returned /\ returned'[Len(returned')].hit) => cache' = cache]_vars

(* C25 witness: a cycle that started later has committed, and a cycle that
   started earlier is still in flight with the cache holding the later
   cycle's list and timestamp *)
C25_Witness ==
    /\ calls[1].pc = "devicectl"
    /\ calls[2].pc = "idle"
    /\ cache.hasDevicesList
    /\ cache.deviceListTimestamp > calls[1].now
    /\ Len(returned) >= 1
    /\ ~returned[Len(returned)].hit
    /\ cache.devicesList = returned[Len(returned)].result
    /\ cache.devicesList # <<>>

----------------------------------------------------------------------------
(* Claims about the stages of the run-on-device handler, checked under SpecRun *)

(* the stage a command belongs to *)
Rank(cmd) ==
    CASE cmd = "bundleId" -> 3
      [] cmd = "estimate" -> 5
      [] cmd = "build" -> 6
      [] cmd \in {"launch", "install"} -> 8

(* C26: the commands of an invocation are issued in stage order, one at a
   time: only the last one can be pending, and none is pending while the
   registry's cycle runs; a launch command is issued only after the build
   install command, if there is one, settled successfully; when the build
   install command fails it is the last command, no launch, install or log
   stream is started, and the invocation has returned an error result *)
C26_StagesInOrderBuildGatesLaunch ==
    /\ \A i \in 1..(Len(commands) - 1) :
          /\ commands[i].outcome # "pending"
          /\ Rank(commands[i].cmd) <= Rank(commands[i + 1].cmd)
    /\ \A cmd \in {"bundleId", "estimate", "build"} : Cardinality(Issued(cmd)) <= 1
    /\ calls[1].pc # "idle" => \A i \in 1..Len(commands) : commands[i].outcome # "pending"
    /\ \A i \in Issued("launch"), j \in Issued("build") :
          j < i /\ commands[j].outcome = "ok"
    /\ \A j \in Issued("build") :
          commands[j].outcome = "error" =>
              /\ j = Len(commands)
              /\ Issued("launch") = {} /\ Issued("install") = {}
              /\ ~run.logStream
              /\ run.pc = "done"
              /\ run.result.isError

(* C26 witness: the build install command failed in an invocation that asked
   for log streaming *)
C26_Witness ==
    /\ run.pc = "done"
    /\ run.args.streamLogs
    /\ run.result.isError
    /\ commands = <<[cmd |-> "bundleId", outcome |-> "ok"],
                    [cmd |-> "estimate", outcome |-> "ok"],
                    [cmd |-> "build", outcome |-> "error"]>>

(* C27: when the first launch fails as not installed and no app path was
   estimated, no install is attempted, no second launch command is issued and
   the invocation has returned the error result *)
C27_NoAppPathNoInstall ==
    (FirstLaunchOutcome = "notInstalled" /\ ~run.appPath) =>
        /\ Issued("install") = {}
        /\ Cardinality(Issued("launch")) = 1
        /\ run.pc = "done"
        /\ run.result.isError
        /\ run.result.text = "error"

(* C27 witness: with skipBuild the launch failed as not installed *)
C27_Witness ==
    /\ run.pc = "done"
    /\ run.args.skipBuild /\ ~run.args.directBundleId
    /\ run.result.isError
    /\ commands = <<[cmd |-> "bundleId", outcome |-> "ok"],
                    [cmd |-> "launch", outcome |-> "notInstalled"]>>

(* stage 3 runs in this step *)
IdentityStage ==
    /\ run.pc = "awaitDevice"
    /\ run'.pc \in {"awaitToolPath", "awaitCachedBundleId", "awaitBundleId"}

(* stage 5 is reached in this step *)
PrepareStage ==
    /\ run.pc = "awaitToolPath"
    /\ run'.pc # "awaitToolPath"

(* the estimate and build install commands are issued exactly when skipBuild is
   false and directBundleId is absent: the estimate when stage 5 is reached, the
   build install command when the estimate settled, whatever its outcome *)
BuildFollowsFlags ==
    /\ PrepareStage =>
          IF ~run.args.skipBuild /\ ~run.args.directBundleId
          THEN commands' = Issue(commands, "estimate")
          ELSE commands' = commands /\ run'.pc = "launch.awaitToolPath"
    /\ (run.pc = "awaitEstimate" /\ run'.pc # "awaitEstimate") =>
          /\ Len(commands') = Len(commands) + 1
          /\ commands'[Len(commands')] = [cmd |-> "build", outcome |-> "pending"]
    /\ (run.args.skipBuild \/ run.args.directBundleId) =>
          Issued("estimate") = {} /\ Issued("build") = {}
    /\ run.args.directBundleId => Issued("bundleId") = {}

(* C28 as stated: the estimate and build install commands follow the two flags,
   and stage 3 issues the settings command exactly when directBundleId is absent *)
C28_SettingsIssuedIffNoDirectId ==
    [][/\ BuildFollowsFlags
       /\ IdentityStage =>
              ((commands' = Issue(commands, "bundleId")) <=> ~run'.args.directBundleId)]_vars

(* C28 amended: the estimate and build install commands follow the two flags,
   and stage 3 issues the settings command exactly when directBundleId is absent
   and the bundle identifier of the project and scheme is not cached *)
C28_SettingsIssuedUnlessDirectOrCached ==
    [][/\ BuildFollowsFlags
       /\ IdentityStage =>
              /\ (commands' = Issue(commands, "bundleId"))
                     <=> (~run'.args.directBundleId /\ ~bundleIds)
              /\ (~run'.args.directBundleId /\ bundleIds) =>
                     commands' = commands]_vars

(* C28 witness: without directBundleId and without skipBuild the invocation
   issued no settings command, the identifier being cached, then estimated,
   built and launched *)
C28_Witness ==
    /\ run.pc = "done"
    /\ ~run.args.directBundleId /\ ~run.args.skipBuild
    /\ bundleIds
    /\ commands = <<[cmd |-> "estimate", outcome |-> "ok"],
                    [cmd |-> "build", outcome |-> "ok"],
                    [cmd |-> "launch", outcome |-> "ok"]>>

(* C29: after a failed estimate (command error or no build directory line) the
   build install command is issued all the same and, when it succeeds, the
   launch follows; no app path is known, so no install is attempted and the
   launch command is issued once *)
C29_EstimateFailureOnlyDisablesInstall ==
    \A k \in Issued("estimate") :
        commands[k].outcome \in {"error", "noMatch"} =>
            /\ ~run.appPath
            /\ k < Len(commands)
            /\ commands[k + 1].cmd = "build"
            /\ commands[k + 1].outcome = "ok" =>
                  (run.pc = "launch.awaitToolPath" \/ Issued("launch") # {})
            /\ Issued("install") = {}
            /\ Cardinality(Issued("launch")) <= 1
            /\ (run.pc = "done" /\ LaunchSucceeded) => ~run.result.isError

(* C29 witness: the estimate command failed, the build install command and the
   launch succeeded *)
C29_Witness ==
    /\ run.pc = "done"
    /\ ~run.result.isError
    /\ commands = <<[cmd |-> "bundleId", outcome |-> "ok"],
                    [cmd |-> "estimate", outcome |-> "error"],
                    [cmd |-> "build", outcome |-> "ok"],
                    [cmd |-> "launch", outcome |-> "ok"]>>

----------------------------------------------------------------------------
(* Claims about the parsing of the settings output, checked under SpecBundle *)

(* the positions of the output where an assignment of the setting starts: the
   name, blanks, '=' *)
AssignmentStarts(stdout) ==
    {i \in 1..Len(stdout) :
        /\ stdout[i] = SettingName
        /\ \E e \in (i + 1)..Len(stdout) :
              /\ stdout[e] = "="
              /\ \A j \in (i + 1)..(e - 1) : stdout[j] \in {" ", "\t"}}

(* the right-hand side of the first assignment line: from after its '=' to the
   end of its line *)
RightHandSide(stdout) ==
    LET i == CHOOSE i \in AssignmentStarts(stdout) :
                 \A j \in AssignmentStarts(stdout) : i <= j
        e == CHOOSE e \in (i + 1)..Len(stdout) :
                 stdout[e] = "=" /\ \A j \in (i + 1)..(e - 1) : stdout[j] # "="
        ends == {n \in (e + 1)..Len(stdout) : stdout[n] = "\n"}
        last == IF ends = {} THEN Len(stdout)
                ELSE (CHOOSE n \in ends : \A m \in ends : n <= m) - 1
    IN SubSeq(stdout, e + 1, last)

(* C31 as stated: when the output of the settings command contains an
   assignment line of the bundle identifier, terminated by a newline or not,
   the call returns the trimmed right-hand value of that line *)
C31_AssignmentLineYieldsValue ==
    (bundle.returned.called /\ bundle.returned.issued = 1
        /\ AssignmentStarts(bundle.returned.stdout) # {}) =>
            /\ ~bundle.returned.threw
            /\ bundle.returned.value = Trim(RightHandSide(bundle.returned.stdout))

----------------------------------------------------------------------------
(* The build toolchain commands: how each command site names the project.
   A command is the record of its site, its container flag, the project path
   and the scheme (<<>> where the site takes none). *)

(* -workspace for a path ending with .xcworkspace, else -project *)
ContainerFlag(projectPath) ==
    IF IsWorkspace(projectPath) THEN "-workspace" ELSE "-project"

ToolchainCommand(site, container, projectPath, scheme) ==
    [cmd |-> site, outcome |-> "pending", container |-> container,
     projectPath |-> projectPath, scheme |-> scheme]

(* xcode-project-info: xcodebuild -list -json -project *)
ProjectInfoCommand(projectPath) ==
    ToolchainCommand("projectInfo", "-project", projectPath, <<>>)

(* xcode-build *)
BuildCommand(projectPath, scheme) ==
    ToolchainCommand("build", ContainerFlag(projectPath), projectPath, scheme)

(* xcode-list-schemes *)
ListSchemesCommand(projectPath) ==
    ToolchainCommand("listSchemes", ContainerFlag(projectPath), projectPath, <<>>)

(* xcode-test *)
TestCommand(projectPath, scheme) ==
    ToolchainCommand("test", ContainerFlag(projectPath), projectPath, scheme)

(* xcode-archive *)
ArchiveCommand(projectPath, scheme) ==
    ToolchainCommand("archive", ContainerFlag(projectPath), projectPath, scheme)

(* xcode-codesign-info: the build settings command *)
CodeSignSettingsCommand(projectPath) ==
    ToolchainCommand("codeSignSettings", ContainerFlag(projectPath), projectPath, <<>>)

(* run-on-device, stage 5: xcodebuild -project ... | grep CONFIGURATION_BUILD_DIR *)
EstimateCommand(projectPath, scheme) ==
    ToolchainCommand("estimate", "-project", projectPath, scheme)

(* buildAndInstallApp *)
BuildInstallCommand(projectPath, scheme) ==
    ToolchainCommand("buildInstall", ContainerFlag(projectPath), projectPath, scheme)

(* getBundleIdentifier *)
BundleSettingsCommand(projectPath, scheme) ==
    ToolchainCommand("bundleId", SettingsCommand(projectPath, scheme).container,
                     projectPath, scheme)

(* the commands the sites build, over the project paths and schemes *)
ToolchainCommands ==
    {ProjectInfoCommand(p) : p \in ProjectPaths}
    \cup {ListSchemesCommand(p) : p \in ProjectPaths}
    \cup {CodeSignSettingsCommand(p) : p \in ProjectPaths}
    \cup UNION {{BuildCommand(p, sch), TestCommand(p, sch), ArchiveCommand(p, sch),
                 EstimateCommand(p, sch), BuildInstallCommand(p, sch),
                 BundleSettingsCommand(p, sch)} : p \in ProjectPaths, sch \in Schemes}

(* a site issues its command through executeCommand *)
ToolchainIssue ==
    /\ IF commands = <<>> THEN TRUE ELSE commands[Len(commands)].outcome # "pending"
    /\ \E command \in ToolchainCommands : commands' = <<command>>
    /\ UNCHANGED <<registryVars, run, bundleIds, toolVars>>

(* the command settled *)
ToolchainSettle ==
    /\ commands # <<>>
    /\ commands[Len(commands)].outcome = "pending"
    /\ \E outcome \in {"ok", "error"} : commands' = Settle(commands, outcome)
    /\ UNCHANGED <<registryVars, run, bundleIds, toolVars>>

NextToolchain == ToolchainIssue \/ ToolchainSettle

SpecToolchain == Init /\ [][NextToolchain]_vars

(* C32 as stated: every build toolchain command names its project path with
   the workspace flag if the path ends with .xcworkspace and with the project
   flag otherwise *)
C32_FlagFollowsPathSuffix ==
    \A k \in 1..Len(commands) :
        LET path == commands[k].projectPath
        IN commands[k].container =
              IF path[Len(path)] = ".xcworkspace" THEN "-workspace" ELSE "-project"

----------------------------------------------------------------------------
(* SpecEnv: the environment strings through stage 7 and the launch command *)

(* stages 7 and 8: the string is parsed and the launch command is issued with
   the serialized object *)
EnvLaunch ==
    /\ IF commands = <<>> THEN TRUE ELSE commands[Len(commands)].outcome # "pending"
    /\ \E environmentVars \in EnvStrings :
          LET envVars == ParseEnvironment(environmentVars)
          IN commands' = <<[cmd |-> "launch", outcome |-> "pending",
                            environmentVars |-> environmentVars,
                            envVars |-> envVars,
                            envString |-> SerializeEnvironment(envVars)]>>
    /\ UNCHANGED <<registryVars, run, bundleIds, toolVars>>

(* the launch command settled *)
EnvSettle ==
    /\ commands # <<>>
    /\ commands[Len(commands)].outcome = "pending"
    /\ \E outcome \in {"ok"} \cup ErrorOutcomes : commands' = Settle(commands, outcome)
    /\ UNCHANGED <<registryVars, run, bundleIds, toolVars>>

NextEnv == EnvLaunch \/ EnvSettle

SpecEnv == Init /\ [][NextEnv]_vars

(* C33 as stated: for every environment string of key=value pairs joined by
   commas, with distinct non-empty keys and non-empty values without a comma,
   the string serialized into the launch command is the string given: the same
   pairs in the same order, also for values that contain an equals sign *)
C33_EnvironmentRoundTrip ==
    \A k \in 1..Len(commands) : commands[k].envString = commands[k].environmentVars

----------------------------------------------------------------------------
(* Claims about the launch commands of one invocation, checked under SpecRun *)

(* C34 as stated: an on-demand install that fails with an error not of the
   not-installed class is the last command of the invocation, which has ended
   with an error result, so no re-launch follows it; and every re-launch
   command issued is the text of the initial launch command *)
C34_InstallFailureEndsRelaunchIdentical ==
    /\ \A k \in Issued("install") :
          commands[k].outcome = "error"
          => (Len(commands) = k /\ run.pc = "done" /\ run.result.isError)
    /\ \A k \in 2..Len(run.launches) : run.launches[k] = run.launches[1]

----------------------------------------------------------------------------
(* SpecLookup: getAllDevices (forced or not) and findDeviceInfo calls of one
   caller, one after the other, while time passes; the command log holds the
   devicectl listing that settled last, with the time it settled at, which is
   the time its cycle ended *)

(* the last instant of SpecLookup *)
MaxLookupTime == 6

LookupQueries == {<<"a">>, <<"c">>}

LookupTick ==
    /\ now < MaxLookupTime
    /\ Tick

LookupList ==
    /\ \E f \in BOOLEAN :
          \/ GetAllDevicesCached(1, "getAllDevices", f, undefined)
          \/ GetAllDevicesBegin(1, "getAllDevices", f, undefined)
    /\ UNCHANGED <<runVars, toolVars>>

LookupFind ==
    /\ \E nameOrId \in LookupQueries : CallFindDeviceInfo(nameOrId)
    /\ UNCHANGED <<runVars, toolVars>>

LookupDevicectl ==
    /\ \E out \in CacheDevicectlOutputs :
          /\ DevicectlDone(1, out)
          /\ commands' = <<[cmd |-> "devicectl",
                            outcome |-> IF out.ok THEN "ok" ELSE "error",
                            at |-> now]>>
    /\ UNCHANGED <<run, bundleIds, toolVars>>

NextLookup ==
    LookupTick \/ LookupList \/ LookupFind \/ CallXctrace \/ CallToolPath \/ LookupDevicectl

SpecLookup == Init /\ [][NextLookup]_vars

(* the cache holds the result of a cycle whose both commands failed *)
BothFailedCached ==
    /\ calls[1].pc = "idle"
    /\ cache.hasDevicesList
    /\ ~scanned[1].xctrace.ok
    /\ ~scanned[1].devicectl.ok

(* the step ends a discovery cycle of caller 1 *)
CycleEnds == calls[1].pc = "devicectl" /\ calls'[1].pc = "idle"

(* C35 as stated: after a cycle whose both commands failed, a non-forced
   getAllDevices or findDeviceInfo call made less than 5 minutes after that
   cycle ended is answered from the empty list, with no command issued *)
C35_ServedForFiveMinutesAfterCycle ==
    [][(/\ BothFailedCached
        /\ commands # <<>>
        /\ now - commands[Len(commands)].at < CACHE_TIMEOUT)
       => /\ calls'[1].pc # "idle" => calls'[1].forceRefresh
          /\ returned' # returned =>
                (LastReturned'.hit /\ LastReturned'.result = <<>> /\ LastReturned'.cmds = <<>>)]_vars

(* C35 as amended: every cycle that ends commits its list and its start time,
   whatever the two commands did; after a cycle whose both commands failed the
   cache holds the empty list with the time that cycle started, and a
   non-forced getAllDevices or findDeviceInfo call made less than 5 minutes
   after that start is answered with the empty list at once, with no command
   issued *)
C35_FailedCycleCommitsAndIsServed ==
    /\ [](BothFailedCached => (cache.devicesList = <<>> /\ cache.deviceListTimestamp # 0))
    /\ [][/\ CycleEnds =>
                cache' = [hasDevicesList |-> TRUE, devicesList |-> LastReturned'.result,
                          deviceListTimestamp |-> calls[1].now]
          /\ (BothFailedCached /\ now - cache.deviceListTimestamp < CACHE_TIMEOUT) =>
                /\ calls'[1].pc # "idle" => calls'[1].forceRefresh
                /\ returned' # returned =>
                      /\ LastReturned'.hit
                      /\ LastReturned'.result = <<>>
                      /\ LastReturned'.cmds = <<>>
                      /\ LastReturned'.op = "findDeviceInfo"
                            => LastReturned'.error = "DeviceNotFound"
                      /\ cache' = cache]_vars

(* C35 witness: a cycle whose both commands failed, then, later and less than
   5 minutes after its start, a findDeviceInfo call answered from the empty
   list *)
C35_Witness ==
    /\ BothFailedCached
    /\ Len(returned) = 2
    /\ ~returned[1].hit /\ returned[1].cmds = <<"xctrace", "devicectl">>
    /\ returned[1].result = <<>>
    /\ returned[2].op = "findDeviceInfo" /\ returned[2].hit
    /\ returned[2].now > returned[1].now
    /\ returned[2].cachedAt = returned[1].now
    /\ returned[2].error = "DeviceNotFound"

(* no record of the list is found by nameOrId, by identifier or by name *)
NoneMatches(devices, nameOrId) ==
    \A i \in 1..Len(devices) : ~IdMatch(devices[i], nameOrId) /\ ~NameMatch(devices[i], nameOrId)

(* C36: findDeviceInfo never forces a refresh: a findDeviceInfo call that finds
   a cache less than 5 minutes old issues no discovery command, and fails with
   device-not-found when no cached record matches the query *)
C36_FindDeviceInfoNeverForces ==
    /\ calls[1].op = "findDeviceInfo" =>
          /\ ~calls[1].forceRefresh
          /\ calls[1].cachedAt = 0 \/ CacheAge(calls[1]) >= CACHE_TIMEOUT
    /\ \A k \in 1..Len(returned) :
          LET s == returned[k]
          IN s.op = "findDeviceInfo" =>
                /\ ~s.forceRefresh
                /\ (s.cachedAt # 0 /\ CacheAge(s) < CACHE_TIMEOUT) =>
                      /\ s.hit
                      /\ s.cmds = <<>>
                      /\ NoneMatches(s.result, s.query) =>
                            (s.error = "DeviceNotFound" /\ s.device = NoDevice)

(* C36 witness: a findDeviceInfo call failed on a young cache without a
   command, and a later forced cycle reports a device of the name asked for *)
C36_Witness ==
    /\ Len(returned) = 2
    /\ returned[1].op = "findDeviceInfo" /\ returned[1].hit
    /\ returned[1].cachedAt # 0
    /\ returned[1].cmds = <<>>
    /\ returned[1].error = "DeviceNotFound"
    /\ returned[2].op = "getAllDevices" /\ returned[2].forceRefresh
    /\ returned[2].now - returned[1].cachedAt < CACHE_TIMEOUT
    /\ \E i \in 1..Len(returned[2].result) : returned[2].result[i].name = returned[1].query

----------------------------------------------------------------------------
(* Claims about overlapping cycles, checked under SpecCycles *)

(* C37 as stated: in every step the cached timestamp does not decrease, and a
   cycle that commits over a cached list did not start earlier than the cycle
   that produced that list *)
C37_TimestampNeverDecreases ==
    [][/\ cache'.deviceListTimestamp >= cache.deviceListTimestamp
       /\ \A c \in Callers :
             (Commits(c) /\ cache.hasDevicesList)
             => calls[c].now >= cache.deviceListTimestamp]_vars

----------------------------------------------------------------------------
(* Claims about the names of the merged list, checked under SpecMerge *)

(* C38: after a discovery cycle, whatever the two sources printed, no two
   records of the cached list have the same name *)
C38_NamesDistinct ==
    CycleDone =>
        \A i, j \in 1..Len(cache.devicesList) :
            i # j => cache.devicesList[i].name # cache.devicesList[j].name

(* C38 witness: both sources repeated a name and reported a second one, and the
   list has one record for each *)
C38_Witness ==
    /\ CycleDone /\ scanned[1].xctrace.ok /\ scanned[1].devicectl.ok
    /\ Len(scanned[1].xctrace.lines) = 2
    /\ scanned[1].xctrace.lines[1].name = scanned[1].xctrace.lines[2].name
    /\ Len(scanned[1].devicectl.lines) = 2
    /\ scanned[1].devicectl.lines[1].name = scanned[1].xctrace.lines[1].name
    /\ ~Related(scanned[1].devicectl.lines[2].name, scanned[1].xctrace.lines[1].name)
    /\ Len(cache.devicesList) = 2

(* C39 as stated: a devicectl row whose name equals the name of an existing
   record sets the deviceCtlId of that record, whatever the names of the
   records before it; so every row's identifier is put on a record of the name
   the row reported *)
C39_ExactNameRowMergesIntoItsRecord ==
    (CycleDone /\ scanned[1].devicectl.ok) =>
        LET lines == scanned[1].devicectl.lines
            trace == scanned[1].trace
        IN \A k \in 1..Len(lines) :
              LET before == trace[k]
                  after == trace[k + 1]
              IN /\ \A i \in Named(before, lines[k].name) :
                        after = [before EXCEPT ![i].deviceCtlId = lines[k].deviceCtlId]
                 /\ \E i \in Named(after, lines[k].name) :
                        after[i].deviceCtlId = lines[k].deviceCtlId

----------------------------------------------------------------------------
(* Claims about the tool-path cache, checked under SpecToolPath *)

(* the installation whose tool the step's executable check was about *)
CheckedPath ==
    IF tool.call.pc = "loop" THEN tool.call.installations[tool.call.i].path
    ELSE tool.call.xcodePath

(* the step returns from getDeviceCtlPath *)
ToolReturns == tool'.returned.flip # tool.returned.flip

(* C40: every entry of the tool-path cache maps an installation path k to the
   tool path inside k; an entry is written only by the step in which the
   executable check of that very tool succeeded, so a path found by the loop
   over the installations goes under that installation's path and not under
   the path the caller gave; a call that returns the default path, having
   verified nothing, writes nothing *)
C40_CacheHoldsVerifiedToolOfItsKey ==
    /\ [](\A k \in ToolKeys :
            tool.deviceCtlPaths[k] # NoToolPath => tool.deviceCtlPaths[k] = ToolPath(k))
    /\ [][/\ \A k \in ToolKeys :
               tool'.deviceCtlPaths[k] # tool.deviceCtlPaths[k] =>
                   /\ tool.call.pc \in {"access", "loop"}
                   /\ k = CheckedPath
                   /\ tool'.observed[k] = "ok"
                   /\ tool'.deviceCtlPaths[k] = ToolPath(k)
                   /\ ToolReturns /\ tool'.returned.result = ToolPath(k)
          /\ (/\ ToolReturns
              /\ ~tool'.returned.hit
              /\ tool'.returned.given # "ok"
              /\ \A n \in 1..Len(tool'.returned.checks) : ~tool'.returned.checks[n].ok)
             => (/\ tool'.returned.result = DefaultToolPath
                 /\ tool'.deviceCtlPaths = tool.deviceCtlPaths)]_vars

(* C40 witness: the tool of the given installation did not verify, the loop
   found the tool of another installation, and the cache has it under that
   installation's path and nothing under the given one *)
C40_Witness ==
    /\ tool.returned.called
    /\ tool.returned.given = "failed"
    /\ tool.returned.xcodePath \in ToolKeys
    /\ tool.deviceCtlPaths[tool.returned.xcodePath] = NoToolPath
    /\ \E k \in ToolKeys \ {tool.returned.xcodePath} :
          /\ tool.returned.result = ToolPath(k)
          /\ tool.deviceCtlPaths[k] = ToolPath(k)
          /\ k # "Xcode.app"

=============================================================================
